---------------------------- MODULE Spec2Model ----------------------------
(***************************************************************************)
(* Model of the tf-acore-aas control plane: the tenant partition guard     *)
(* (data_access.client), the failover lock (scripts/failover_lock.py),     *)
(* the invocation bridge (src/bridge/handler.py) and the job lifecycle.    *)
(*                                                                         *)
(* Strings whose contents the code inspects (prefix tests, comparisons)    *)
(* are sequences of one-character strings, so that startswith,             *)
(* removeprefix and concatenation are computed, not assumed.               *)
(***************************************************************************)
EXTENDS Integers, Sequences, FiniteSets, TLC

(***************************************************************************)
(* Bounds of the model.                                                    *)
(***************************************************************************)
\* number of Guard operations in one behaviour
MaxOps == 2

\* operators (processes) that contend for the failover lock
NumProcs == 2

\* acquire attempts of one operator
MaxAttempts == 2

\* the clock runs from 0 to MaxTime (in units of the lock's time to live)
MaxTime == 2

\* ttl_seconds is drawn from 1..MaxTtl
MaxTtl == 1

\* requests the bridge handles
MaxReqs == 2

\* operations asked of the job tracker
MaxJobOps == 4

\* the clock of the runs in which holders crash: long enough for a lock to be
\* acquired, to expire and to be acquired again
MaxLiveTime == 5

\* commands run from the lock's command line
MaxCliOps == 3

\* requests the tenant API receives
MaxTenantReqs == 3

(***************************************************************************)
(* String helpers (Python str semantics on character sequences).           *)
(***************************************************************************)
StartsWith(s, p) == Len(s) >= Len(p) /\ SubSeq(s, 1, Len(p)) = p

RemovePrefix(s, p) == IF StartsWith(s, p) THEN SubSeq(s, Len(p) + 1, Len(s)) ELSE s

\* code point of the characters the model uses (ASCII)
Code(c) ==
    CASE c = "#" -> 35 [] c = "." -> 46 [] c = "/" -> 47
      [] c = "0" -> 48 [] c = "1" -> 49 [] c = "2" -> 50 [] c = "9" -> 57
      [] c = "A" -> 65 [] c = "B" -> 66 [] c = "D" -> 68 [] c = "E" -> 69
      [] c = "G" -> 71 [] c = "I" -> 73 [] c = "J" -> 74 [] c = "L" -> 76
      [] c = "M" -> 77 [] c = "N" -> 78 [] c = "O" -> 79 [] c = "R" -> 82
      [] c = "S" -> 83 [] c = "T" -> 84 [] c = "V" -> 86
      [] c = "a" -> 97 [] c = "b" -> 98 [] c = "e" -> 101 [] c = "f" -> 102
      [] c = "h" -> 104 [] c = "n" -> 110 [] c = "o" -> 111 [] c = "r" -> 114
      [] c = "s" -> 115 [] c = "t" -> 116 [] c = "x" -> 120
      [] OTHER -> 0

\* lexicographic order of strings, as DynamoDB orders string sort keys
RECURSIVE StrLess(_, _)
StrLess(s, t) ==
    IF t = <<>> THEN FALSE
    ELSE IF s = <<>> THEN TRUE
    ELSE IF Code(Head(s)) # Code(Head(t)) THEN Code(Head(s)) < Code(Head(t))
    ELSE StrLess(Tail(s), Tail(t))

(***************************************************************************)
(* Key vocabulary.                                                         *)
(***************************************************************************)
TENANT_PK_PREFIX == <<"T", "E", "N", "A", "N", "T", "#">>
TOOL_PREFIX == <<"T", "O", "O", "L", "#">>
JOB_PREFIX == <<"J", "O", "B", "#">>
INV_PREFIX == <<"I", "N", "V", "#">>
METADATA == <<"M", "E", "T", "A", "D", "A", "T", "A">>
GLOBAL == <<"G", "L", "O", "B", "A", "L">>

TenantA == <<"a">>
TenantB == <<"b">>
TenantAB == <<"a", "b">>

\* tenants that hold a TenantContext (callers)
Callers == {TenantA, TenantB}

\* an attribute value: a string, or something that is not a string
StrVal(s) == [isStr |-> TRUE, s |-> s]
NotAString == [isStr |-> FALSE, s |-> <<>>]

\* key.get("PK", ""): a key dict without PK reads as the empty string
MissingPK == StrVal(<<>>)

MkKey(pk, sk) == [PK |-> pk, SK |-> sk]

\* TenantRecord.pk / InvocationRecord.pk / SessionRecord.pk
TenantPk(t) == StrVal(TENANT_PK_PREFIX \o t)

\* ToolRecord.pk
ToolPk(name) == StrVal(TOOL_PREFIX \o name)

\* ToolRecord.sk
ToolSk(tenant) == IF tenant # <<>> THEN TENANT_PK_PREFIX \o tenant ELSE GLOBAL

\* JobRecord.pk
JobPk(id) == StrVal(JOB_PREFIX \o id)

\* keys the table can hold (string PK and SK)
StoreKeys ==
    { MkKey(TenantPk(t), METADATA) : t \in {TenantA, TenantB, TenantAB} }
      \cup { MkKey(TenantPk(t), INV_PREFIX \o <<"1">>) : t \in {TenantA, TenantB} }
      \cup { MkKey(ToolPk(<<"x">>), ToolSk(TenantB)), MkKey(ToolPk(<<"x">>), ToolSk(<<>>)) }
      \cup { MkKey(JobPk(<<"1">>), METADATA) }
      \cup { MkKey(StrVal(TENANT_PK_PREFIX), METADATA) }

\* keys a caller can hand to the Guard: also a non-string PK and a missing PK
InputKeys == StoreKeys \cup { MkKey(NotAString, METADATA), MkKey(MissingPK, METADATA) }

\* the tenant identity a key component encodes, when it encodes one
HasTenantSegment(s) == StartsWith(s, TENANT_PK_PREFIX)

KeyEncodesTenant(key, t) ==
    \/ key.PK.isStr /\ key.PK.s = TENANT_PK_PREFIX \o t
    \/ key.SK = TENANT_PK_PREFIX \o t

\* the key encodes, in its PK or in its SK, a tenant other than t
KeyEncodesOtherTenant(key, t) ==
    \/ key.PK.isStr /\ HasTenantSegment(key.PK.s) /\ key.PK.s # TENANT_PK_PREFIX \o t
    \/ HasTenantSegment(key.SK) /\ key.SK # TENANT_PK_PREFIX \o t


(***************************************************************************)
(* State.                                                                  *)
(***************************************************************************)
VARIABLES
    \* --- tenant partition guard (data_access.client) ---
    store,          \* the DynamoDB table: StoreKeys -> 0 (no item) or the item's data
    bucket,         \* the S3 bucket: the set of object keys present
    gpc,            \* position of the Guard operation in flight
    gop,            \* the Guard operation in flight and its arguments
    gevents,        \* what the operation in flight has done so far, in order
    gresult,        \* what the last finished operation returned or raised
    cwMetrics,      \* TenantAccessViolation data points CloudWatch received from the
                    \* operation in flight
    opsDone,        \* Guard operations finished
    foreignTouched, \* store calls issued on a key that encodes another tenant
    snap,           \* store and bucket when the operation in flight began
    \* --- failover lock (scripts/failover_lock.py) ---
    lockRec,        \* the item LOCK#<name> / METADATA of platform-ops-locks, or NoLock
    clock,          \* current time
    lpc,            \* position of each operator
    ltoken,         \* lock_id of the LockRecord acquire_lock returned to each operator
    lout,           \* outcome of each operator's last acquire or held_lock body
    lrel,           \* outcome of each operator's last release_lock call
    lattempts,      \* acquire attempts of each operator so far
    forced,         \* an unconditional (token-less) release has been issued
    overstayed,     \* a holder was inside its critical section when its record expired
    lwon,           \* lock_ids acquire_lock returned before any record was removed
    llost,          \* acquire_lock calls that raised LockAlreadyHeldError before that
    lremoved,       \* a lock record has been removed, by a release or by expiry
    \* --- bridge Lambda (src/bridge/handler.py) ---
    registry,       \* platform-agents: the registered versions of the agent
    invTable,       \* platform-invocations: the items written
    jobTable,       \* platform-jobs: the items written
    cfgCache,       \* _config_cache
    cfgExpiry,      \* _config_cache_expiry
    bnow,           \* time.time()
    breqs,          \* requests received
    bpc,            \* stage of the request in flight
    bctx,           \* the handler's locals: tenant context, agent, ids
    btrace,         \* what the request in flight has done so far, in order
    bresp,          \* what the handler returned (or raised) for the last request
    bsnap,          \* the tables as they were when the request in flight arrived
    \* --- job lifecycle tracker (platform-jobs) ---
    jobs,           \* the JobRecord under each job id, or NoJob
    jlast,          \* the last operation asked of the tracker and its outcome
    jops,           \* operations asked of the tracker so far
    \* --- failover lock command line (scripts/failover_lock.py, main) ---
    cli,            \* per operator: the saved local token file and the last command run
    cliOps,         \* commands run so far
    \* --- tenant API Lambda (src/tenant_api/handler.py) ---
    tenantsTable,   \* platform-tenants: whether TENANT#<id> / METADATA exists, per tenant id
    treq,           \* per concurrent invocation of lambda_handler: the request in flight
                    \* or the last one finished
    treqs,          \* requests received so far
    memCalls,       \* calls of memory_provisioner.provision, per tenant id
    secrets,        \* tenant ids whose API-key secret exists in Secrets Manager
    tevents         \* tenant.created events put on the bus, per tenant id

gvars == <<store, bucket, gpc, gop, gevents, gresult, cwMetrics, opsDone,
           foreignTouched, snap>>

lvars == <<lockRec, clock, lpc, ltoken, lout, lrel, lattempts, forced, overstayed,
          lwon, llost, lremoved>>

bvars == <<registry, invTable, jobTable, cfgCache, cfgExpiry, bnow, breqs, bpc, bctx,
           btrace, bresp, bsnap>>

jvars == <<jobs, jlast, jops>>

cvars == <<cli, cliOps>>

tvars == <<tenantsTable, treq, treqs, memCalls, secrets, tevents>>

vars == <<gvars, lvars, bvars, jvars, cvars, tvars>>

\* what the steps of each component leave alone
notGuard == <<lvars, bvars, jvars, cvars, tvars>>
notLock == <<gvars, bvars, jvars, cvars, tvars>>
notBridge == <<gvars, lvars, jvars, cvars, tvars>>
notJobs == <<gvars, lvars, bvars, cvars, tvars>>
notCli == <<gvars, bvars, jvars, tvars>>
notTenantApi == <<gvars, lvars, bvars, jvars, cvars>>

(***************************************************************************)
(* Tenant partition guard: TenantScopedDynamoDB.                           *)
(***************************************************************************)
ItemOps == {"get_item", "put_item", "update_item", "delete_item"}

\* the data written by put_item and update_item (items present initially hold 1)
Datas == {2}

NoItem == 0

Item(key, d) == [PK |-> key.PK, SK |-> key.SK, data |-> d]

\* a key DynamoDB accepts for this table: string PK (not empty) and string SK
ValidStoreKey(key) == key.PK.isStr /\ key.PK.s # <<>>

\* a check that rejects every key other than the caller's own partition
ValidatePkFailsStrict(tenant, key) ==
    ~(key.PK.isStr /\ key.PK.s = TENANT_PK_PREFIX \o tenant)

\* a check that compares only a prefix of the PK with the caller's partition
ValidatePkFailsPrefixOnly(tenant, key) ==
    /\ key.PK.isStr
    /\ StartsWith(key.PK.s, TENANT_PK_PREFIX)
    /\ ~StartsWith(key.PK.s, TENANT_PK_PREFIX \o tenant)

\* _validate_pk: the condition under which it calls _raise_violation
ValidatePkFails(tenant, key) ==
    /\ key.PK.isStr
    /\ StartsWith(key.PK.s, TENANT_PK_PREFIX)
    /\ key.PK.s # TENANT_PK_PREFIX \o tenant

\* _validate_pk: target_tenant_id = pk.removeprefix(_TENANT_PK_PREFIX)
DdbTargetTenant(key) == RemovePrefix(key.PK.s, TENANT_PK_PREFIX)

\* the statements of each TenantScopedDynamoDB method, in order: get_item,
\* put_item, update_item and delete_item validate the PK and then call the
\* table; query and scan call the table at once
DdbMethodStepsStoreFirst(op) ==
    IF op \in ItemOps THEN <<"store", "validate">> ELSE <<"store">>

DdbMethodSteps(op) == IF op \in ItemOps THEN <<"validate", "store">> ELSE <<"store">>

\* _raise_violation (DynamoDB): log, emit metric, raise
DdbRaiseViolationOrderMetricFirst == <<"metric", "raise", "log">>

DdbRaiseViolationOrder == <<"log", "metric", "raise">>

\* _raise_violation (S3): log, emit metric, raise
S3RaiseViolationOrder == <<"log", "metric", "raise">>

RaiseOrder(guard) == IF guard = "ddb" THEN DdbRaiseViolationOrder ELSE S3RaiseViolationOrder

\* _emit_tenant_violation_metric: try put_metric_data / except Exception: log
EmitOutcomePropagates(cwOk) == [emitted |-> cwOk, propagates |-> ~cwOk]

EmitOutcome(cwOk) == [emitted |-> cwOk, propagates |-> FALSE]

NoQuery == [sk |-> "none", filter |-> 0, index |-> "none", limit |-> 0,
            forward |-> TRUE, esk |-> "none"]

NoResult == [kind |-> "none", tenant_id |-> <<>>, caller_tenant_id |-> <<>>,
             attempted_key |-> <<>>, items |-> <<>>]

OkResult(items) == [NoResult EXCEPT !.kind = "ok", !.items = items]

ErrResult(kind) == [NoResult EXCEPT !.kind = kind]

IdleOp == [guard |-> "none", op |-> "none", caller |-> <<>>, key |-> <<>>,
           data |-> 0, cond |-> "none", q |-> NoQuery, target |-> <<>>,
           rest |-> <<>>]

\* a method is entered: its first statement is next
GuardBegin(guard, op, caller, key, data, cond, q, steps) ==
    /\ gpc = "idle"
    /\ opsDone < MaxOps
    /\ gop' = [guard |-> guard, op |-> op, caller |-> caller, key |-> key,
               data |-> data, cond |-> cond, q |-> q, target |-> <<>>,
               rest |-> Tail(steps)]
    /\ gpc' = Head(steps)
    /\ gevents' = <<>>
    /\ gresult' = NoResult
    /\ snap' = [store |-> store, bucket |-> bucket]
    /\ cwMetrics' = 0
    /\ UNCHANGED <<store, bucket, opsDone, foreignTouched, notGuard>>

\* the statement at gpc completed normally with (pending) result r: go to the
\* next statement, or return when there is none
GuardAdvance(r) ==
    IF gop.rest = <<>>
      THEN /\ gpc' = "idle"
           /\ gop' = gop
           /\ gresult' = IF r.kind = "none" /\ gresult.kind = "none" THEN OkResult(<<>>)
                         ELSE IF r.kind = "none" THEN gresult ELSE r
           /\ opsDone' = opsDone + 1
      ELSE /\ gpc' = Head(gop.rest)
           /\ gop' = [gop EXCEPT !.rest = Tail(gop.rest)]
           /\ gresult' = IF r.kind = "none" THEN gresult ELSE r
           /\ opsDone' = opsDone

\* the statement at gpc raised: the method is left with the exception
GuardRaise(r) ==
    /\ gpc' = "idle"
    /\ gop' = gop
    /\ gresult' = r
    /\ opsDone' = opsDone + 1

GetItem(caller, key) ==
    GuardBegin("ddb", "get_item", caller, key, 0, "none", NoQuery, DdbMethodSteps("get_item"))

PutItem(caller, key, d) ==
    GuardBegin("ddb", "put_item", caller, key, d, "none", NoQuery, DdbMethodSteps("put_item"))

UpdateConds == {"none", "attribute_exists", "attribute_not_exists"}

UpdateItem(caller, key, d, cond) ==
    GuardBegin("ddb", "update_item", caller, key, d, cond, NoQuery,
               DdbMethodSteps("update_item"))

DeleteItem(caller, key) ==
    GuardBegin("ddb", "delete_item", caller, key, 0, "none", NoQuery,
               DdbMethodSteps("delete_item"))

\* self._validate_pk(key)
DdbValidatePk ==
    /\ gpc = "validate"
    /\ gop.guard = "ddb"
    /\ IF ValidatePkFails(gop.caller, gop.key)
         THEN /\ gop' = [gop EXCEPT !.target = DdbTargetTenant(gop.key),
                                    !.rest = Tail(DdbRaiseViolationOrder)]
              /\ gpc' = Head(DdbRaiseViolationOrder)
              /\ UNCHANGED <<gresult, opsDone>>
         ELSE GuardAdvance(NoResult)
    /\ UNCHANGED <<store, bucket, gevents, cwMetrics, foreignTouched, snap, notGuard>>

\* _raise_violation: logger.error(..., caller_tenant_id, target_tenant_id, attempted_key)
LogViolation ==
    /\ gpc = "log"
    /\ gevents' = Append(gevents, [e |-> "log", caller |-> gop.caller,
                                   target |-> gop.target, key |-> gop.key])
    /\ GuardAdvance(NoResult)
    /\ UNCHANGED <<store, bucket, cwMetrics, foreignTouched, snap, notGuard>>

\* _raise_violation: _emit_tenant_violation_metric(self._cloudwatch, ...)
EmitTenantViolationMetric ==
    /\ gpc = "metric"
    /\ \E cwOk \in BOOLEAN :
         LET r == EmitOutcome(cwOk) IN
         /\ gevents' = Append(gevents, [e |-> "metric", ok |-> r.emitted,
                                        caller |-> gop.caller, target |-> gop.target])
         /\ cwMetrics' = IF r.emitted THEN cwMetrics + 1 ELSE cwMetrics
         /\ IF r.propagates
              THEN GuardRaise(ErrResult("Exception"))
              ELSE GuardAdvance(NoResult)
    /\ UNCHANGED <<store, bucket, foreignTouched, snap, notGuard>>

\* _raise_violation: raise TenantAccessViolation(tenant_id, caller_tenant_id, attempted_key)
RaiseViolation ==
    /\ gpc = "raise"
    /\ gevents' = Append(gevents, [e |-> "raise"])
    /\ GuardRaise([kind |-> "TenantAccessViolation", tenant_id |-> gop.target,
                   caller_tenant_id |-> gop.caller, attempted_key |-> gop.key,
                   items |-> <<>>])
    /\ UNCHANGED <<store, bucket, cwMetrics, foreignTouched, snap, notGuard>>

(***************************************************************************)
(* The DynamoDB table behind the Guard (boto3 Table semantics).            *)
(***************************************************************************)
OtherCaller(t) == IF t = TenantA THEN TenantB ELSE TenantA

RECURSIVE SortBySk(_)
SortBySk(S) ==
    IF S = {} THEN <<>>
    ELSE LET m == CHOOSE k \in S : \A j \in S \ {k} :
                      \/ StrLess(k.SK, j.SK)
                      \/ k.SK = j.SK /\ StrLess(k.PK.s, j.PK.s)
         IN <<m>> \o SortBySk(S \ {m})

RECURSIVE Reverse(_)
Reverse(q) == IF q = <<>> THEN <<>> ELSE Append(Reverse(Tail(q)), Head(q))

RECURSIVE SelectSeq2(_, _)
SelectSeq2(q, S) ==
    IF q = <<>> THEN <<>>
    ELSE IF Head(q) \in S THEN <<Head(q)>> \o SelectSeq2(Tail(q), S)
    ELSE SelectSeq2(Tail(q), S)

TakeFirst(q, n) == IF n = 0 \/ Len(q) <= n THEN q ELSE SubSeq(q, 1, n)

\* the part of q after element k (all of q when k is not in it)
RECURSIVE After(_, _)
After(q, k) ==
    IF q = <<>> THEN <<>>
    ELSE IF Head(q) = k THEN Tail(q)
    ELSE After(Tail(q), k)

SkConds == {"none", "begins_with_INV", "eq_METADATA", "pk_eq_other"}

SkMatches(c, sk) ==
    CASE c = "begins_with_INV" -> StartsWith(sk, INV_PREFIX)
      [] c = "eq_METADATA" -> sk = METADATA
      [] OTHER -> TRUE

QueryArgs ==
    [sk : SkConds, filter : {0} \cup Datas, index : {"none", "other_hash"},
     limit : {0, 1}, forward : BOOLEAN, esk : {"none", "own", "other"}]

EskKey(caller, e) ==
    IF e = "own" THEN MkKey(TenantPk(caller), METADATA)
    ELSE MkKey(TenantPk(OtherCaller(caller)), METADATA)

\* query: key_condition = pk_condition & sk_condition if sk_condition is not None
\* else pk_condition, with pk_condition = Key("PK").eq(TENANT#<caller>).
\* pkEq is the set of values the key condition requires PK to equal; an
\* sk_condition may itself be a condition on PK ("pk_eq_other").
DdbQueryKeyConditionSkOnly(caller, skc) ==
    [pkEq |-> IF skc = "none" THEN {TenantPk(caller)}
              ELSE IF skc = "pk_eq_other" THEN {TenantPk(OtherCaller(caller))}
              ELSE {},
     sk |-> IF skc = "pk_eq_other" THEN "none" ELSE skc]

DdbQueryKeyCondition(caller, skc) ==
    [pkEq |-> {TenantPk(caller)}
              \cup (IF skc = "pk_eq_other" THEN {TenantPk(OtherCaller(caller))} ELSE {}),
     sk |-> IF skc = "pk_eq_other" THEN "none" ELSE skc]

\* Table.query: exactly one equality on the partition key, which must be the
\* hash key of the table or index queried; an ExclusiveStartKey of another
\* partition is rejected; Limit applies before the filter
TableQuery(st, kc, q, esk) ==
    IF \/ Cardinality(kc.pkEq) # 1
       \/ q.index = "other_hash"
       \/ q.esk # "none" /\ esk.PK \notin kc.pkEq
    THEN [raised |-> TRUE, items |-> <<>>]
    ELSE LET pk == CHOOSE v \in kc.pkEq : TRUE
             hit == {k \in StoreKeys : st[k] # NoItem /\ k.PK = pk /\ SkMatches(kc.sk, k.SK)}
             asc == SortBySk(hit)
             ord == IF q.forward THEN asc ELSE Reverse(asc)
             from == IF q.esk = "none" THEN ord
                     ELSE SelectSeq2(ord, {k \in hit : IF q.forward
                                                          THEN StrLess(esk.SK, k.SK)
                                                          ELSE StrLess(k.SK, esk.SK)})
             page == TakeFirst(from, q.limit)
             kept == SelectSeq2(page, {k \in hit : q.filter = 0 \/ st[k] = q.filter})
         IN [raised |-> FALSE, items |-> [i \in 1..Len(kept) |-> Item(kept[i], st[kept[i]])]]

\* a scan confined to one tenant's partition
TableScanOnePartition(st, q) ==
    LET hit == {k \in StoreKeys : st[k] # NoItem /\ k.PK = TenantPk(TenantA)}
        page == TakeFirst(SortBySk(hit), q.limit)
        kept == SelectSeq2(page, {k \in hit : q.filter = 0 \/ st[k] = q.filter})
    IN [i \in 1..Len(kept) |-> Item(kept[i], st[kept[i]])]

\* Table.scan: every item of the table that passes the filter
TableScan(st, q) ==
    LET hit == {k \in StoreKeys : st[k] # NoItem}
        page == TakeFirst(SortBySk(hit), q.limit)
        kept == SelectSeq2(page, {k \in hit : q.filter = 0 \/ st[k] = q.filter})
    IN [i \in 1..Len(kept) |-> Item(kept[i], st[kept[i]])]

\* Table.get_item / put_item / update_item / delete_item
TableItemOp(st, op, key, d, cond) ==
    IF ~ValidStoreKey(key)
      THEN [raised |-> TRUE, store |-> st, items |-> <<>>]
    ELSE CASE op = "get_item" ->
                [raised |-> FALSE, store |-> st,
                 items |-> IF st[key] = NoItem THEN <<>> ELSE <<Item(key, st[key])>>]
           [] op = "put_item" ->
                [raised |-> FALSE, store |-> [st EXCEPT ![key] = d], items |-> <<>>]
           [] op = "update_item" ->
                IF \/ cond = "attribute_exists" /\ st[key] = NoItem
                   \/ cond = "attribute_not_exists" /\ st[key] # NoItem
                  THEN [raised |-> TRUE, store |-> st, items |-> <<>>]
                  ELSE [raised |-> FALSE, store |-> [st EXCEPT ![key] = d],
                        items |-> <<Item(key, d)>>]
           [] OTHER ->
                [raised |-> FALSE, store |-> [st EXCEPT ![key] = NoItem], items |-> <<>>]

Query(caller, q) ==
    GuardBegin("ddb", "query", caller, <<>>, 0, "none", q, DdbMethodSteps("query"))

Scan(caller, q) ==
    GuardBegin("ddb", "scan", caller, <<>>, 0, "none", q, DdbMethodSteps("scan"))

ForeignItems(caller, items) ==
    {[caller |-> caller, key |-> MkKey(items[i].PK, items[i].SK)] :
        i \in {j \in 1..Len(items) :
                 KeyEncodesOtherTenant(MkKey(items[j].PK, items[j].SK), caller)}}

\* table = self._dynamodb.Table(table_name); table.<op>(...)
DdbStoreCall ==
    /\ gpc = "store"
    /\ gop.guard = "ddb"
    /\ gevents' = Append(gevents, [e |-> "store", call |-> gop.op, key |-> gop.key])
    /\ IF gop.op \in ItemOps
         THEN LET r == TableItemOp(store, gop.op, gop.key, gop.data, gop.cond) IN
              /\ store' = r.store
              /\ foreignTouched' = foreignTouched \cup
                    (IF KeyEncodesOtherTenant(gop.key, gop.caller)
                       THEN {[caller |-> gop.caller, key |-> gop.key]}
                       ELSE {})
              /\ IF r.raised THEN GuardRaise(ErrResult("ClientError"))
                 ELSE GuardAdvance(OkResult(r.items))
         ELSE IF gop.op = "query"
         THEN LET r == TableQuery(store, DdbQueryKeyCondition(gop.caller, gop.q.sk),
                                  gop.q, EskKey(gop.caller, gop.q.esk)) IN
              /\ store' = store
              /\ foreignTouched' = foreignTouched \cup ForeignItems(gop.caller, r.items)
              /\ IF r.raised THEN GuardRaise(ErrResult("ClientError"))
                 ELSE GuardAdvance(OkResult(r.items))
         ELSE LET items == TableScan(store, gop.q) IN
              /\ store' = store
              /\ foreignTouched' = foreignTouched \cup ForeignItems(gop.caller, items)
              /\ GuardAdvance(OkResult(items))
    /\ UNCHANGED <<bucket, cwMetrics, snap, notGuard>>

(***************************************************************************)
(* Tenant partition guard: TenantScopedS3.                                 *)
(***************************************************************************)
S3_TENANT_DIR == <<"t", "e", "n", "a", "n", "t", "s", "/">>
UNKNOWN == <<"u", "n", "k", "n", "o", "w", "n">>

\* self._prefix = f"{_S3_TENANT_DIR}{self._tenant_id}/"
S3Prefix(tenant) == S3_TENANT_DIR \o tenant \o <<"/">>

ObjF(dir) == dir \o <<"f">>

ObjKeys ==
    { ObjF(S3Prefix(t)) : t \in {TenantA, TenantB, TenantAB} }
      \cup { <<"o", "t", "h", "e", "r", "/", "f">>, S3_TENANT_DIR \o TenantA,
             ObjF(S3Prefix(TenantA) \o <<".", ".", "/", "b", "/">>) }

ListPrefixes == { <<>>, <<"f">>, <<".", ".", "/", "b", "/">> }

S3KeyOps == {"get_object", "put_object", "delete_object", "generate_presigned_url"}

\* the text before the first "/" of s (all of s when it has none)
RECURSIVE UntilSlash(_)
UntilSlash(s) ==
    IF s = <<>> \/ Head(s) = "/" THEN <<>> ELSE <<Head(s)>> \o UntilSlash(Tail(s))

\* a prefix test that omits the trailing "/" of the tenant directory
S3ValidateKeyFailsNoSlash(tenant, key) == ~StartsWith(key, S3_TENANT_DIR \o tenant)

\* _validate_key: the condition under which it calls _raise_violation
S3ValidateKeyFails(tenant, key) == ~StartsWith(key, S3Prefix(tenant))

\* _validate_key: target_tenant_id = key.split("/")[1] under tenants/, else "unknown"
S3TargetTenant(key) ==
    IF StartsWith(key, S3_TENANT_DIR)
      THEN UntilSlash(RemovePrefix(key, S3_TENANT_DIR))
      ELSE UNKNOWN

\* a listing that passes the caller's prefix argument through unchanged
S3FullPrefixArgOnly(tenant, prefix) == prefix

\* list_objects: full_prefix = self._prefix + prefix
S3FullPrefix(tenant, prefix) == S3Prefix(tenant) \o prefix

\* the statements of each TenantScopedS3 method, in order
S3MethodSteps(op) == IF op \in S3KeyOps THEN <<"validate", "store">> ELSE <<"store">>

S3GetObject(caller, key) ==
    GuardBegin("s3", "get_object", caller, key, 0, "none", NoQuery, S3MethodSteps("get_object"))

S3PutObject(caller, key) ==
    GuardBegin("s3", "put_object", caller, key, 0, "none", NoQuery, S3MethodSteps("put_object"))

S3DeleteObject(caller, key) ==
    GuardBegin("s3", "delete_object", caller, key, 0, "none", NoQuery,
               S3MethodSteps("delete_object"))

S3GeneratePresignedUrl(caller, key) ==
    GuardBegin("s3", "generate_presigned_url", caller, key, 0, "none", NoQuery,
               S3MethodSteps("generate_presigned_url"))

S3ListObjects(caller, prefix) ==
    GuardBegin("s3", "list_objects", caller, prefix, 0, "none", NoQuery,
               S3MethodSteps("list_objects"))

\* self._validate_key(key)
S3ValidateKey ==
    /\ gpc = "validate"
    /\ gop.guard = "s3"
    /\ IF S3ValidateKeyFails(gop.caller, gop.key)
         THEN /\ gop' = [gop EXCEPT !.target = S3TargetTenant(gop.key),
                                    !.rest = Tail(S3RaiseViolationOrder)]
              /\ gpc' = Head(S3RaiseViolationOrder)
              /\ UNCHANGED <<gresult, opsDone>>
         ELSE GuardAdvance(NoResult)
    /\ UNCHANGED <<store, bucket, gevents, cwMetrics, foreignTouched, snap, notGuard>>

RECURSIVE SortStr(_)
SortStr(S) ==
    IF S = {} THEN <<>>
    ELSE LET m == CHOOSE k \in S : \A j \in S \ {k} : StrLess(k, j)
         IN <<m>> \o SortStr(S \ {m})

\* self._s3.<op>(Bucket=bucket, Key=key, ...)
S3StoreCall ==
    /\ gpc = "store"
    /\ gop.guard = "s3"
    /\ gevents' = Append(gevents, [e |-> "store", call |-> gop.op, key |-> gop.key])
    /\ IF gop.op = "list_objects"
         THEN LET full == S3FullPrefix(gop.caller, gop.key)
                  items == SortStr({k \in bucket : StartsWith(k, full)})
              IN /\ bucket' = bucket
                 /\ foreignTouched' = foreignTouched \cup
                       {[caller |-> gop.caller, key |-> items[i]] :
                          i \in {j \in 1..Len(items) :
                                   ~StartsWith(items[j], S3Prefix(gop.caller))}}
                 /\ GuardAdvance(OkResult(items))
         ELSE /\ foreignTouched' = foreignTouched \cup
                    (IF ~StartsWith(gop.key, S3Prefix(gop.caller))
                       THEN {[caller |-> gop.caller, key |-> gop.key]}
                       ELSE {})
              /\ CASE gop.op = "get_object" ->
                        /\ bucket' = bucket
                        /\ IF gop.key \in bucket THEN GuardAdvance(OkResult(<<gop.key>>))
                           ELSE GuardRaise(ErrResult("ClientError"))
                   [] gop.op = "put_object" ->
                        /\ bucket' = bucket \cup {gop.key}
                        /\ GuardAdvance(OkResult(<<>>))
                   [] gop.op = "delete_object" ->
                        /\ bucket' = bucket \ {gop.key}
                        /\ GuardAdvance(OkResult(<<>>))
                   [] OTHER ->
                        /\ bucket' = bucket
                        /\ GuardAdvance(OkResult(<<gop.key>>))
    /\ UNCHANGED <<store, cwMetrics, snap, notGuard>>

(***************************************************************************)
(* Specification of the Guard: any caller issues any operation.            *)
(***************************************************************************)
FullStore == [k \in StoreKeys |-> 1]
EmptyStore == [k \in StoreKeys |-> NoItem]

GuardInit ==
    /\ \/ store = FullStore /\ bucket = ObjKeys
       \/ store = EmptyStore /\ bucket = {}
    /\ gpc = "idle"
    /\ gop = IdleOp
    /\ gevents = <<>>
    /\ gresult = NoResult
    /\ cwMetrics = 0
    /\ opsDone = 0
    /\ foreignTouched = {}
    /\ snap = [store |-> store, bucket |-> bucket]

GuardNext ==
    \/ \E c \in Callers, k \in InputKeys : GetItem(c, k)
    \/ \E c \in Callers, k \in InputKeys, d \in Datas : PutItem(c, k, d)
    \/ \E c \in Callers, k \in InputKeys, d \in Datas, cond \in UpdateConds :
          UpdateItem(c, k, d, cond)
    \/ \E c \in Callers, k \in InputKeys : DeleteItem(c, k)
    \/ \E c \in Callers, k \in ObjKeys : S3GetObject(c, k)
    \/ \E c \in Callers, k \in ObjKeys : S3PutObject(c, k)
    \/ \E c \in Callers, k \in ObjKeys : S3DeleteObject(c, k)
    \/ \E c \in Callers, k \in ObjKeys : S3GeneratePresignedUrl(c, k)
    \/ \E c \in Callers, p \in ListPrefixes : S3ListObjects(c, p)
    \/ DdbValidatePk
    \/ S3ValidateKey
    \/ LogViolation
    \/ EmitTenantViolationMetric
    \/ RaiseViolation
    \/ DdbStoreCall
    \/ S3StoreCall


(***************************************************************************)
(* Specification of the range reads: writes through the Guard (and the     *)
(* initial contents, which hold other tenants' items) followed by query    *)
(* and scan with any arguments.                                            *)
(***************************************************************************)
ScanArgs == {q \in QueryArgs : q.sk = "none" /\ q.index = "none" /\ q.forward /\ q.esk = "none"}

QueryInit == GuardInit

QueryNext ==
    \/ \E c \in Callers, k \in StoreKeys, d \in Datas : PutItem(c, k, d)
    \/ \E c \in Callers, k \in StoreKeys : DeleteItem(c, k)
    \/ \E c \in Callers, q \in QueryArgs : Query(c, q)
    \/ \E c \in Callers, q \in ScanArgs : Scan(c, q)
    \/ DdbValidatePk
    \/ LogViolation
    \/ EmitTenantViolationMetric
    \/ RaiseViolation
    \/ DdbStoreCall



(***************************************************************************)
(* Failover lock: acquire_lock, release_lock, held_lock.                   *)
(***************************************************************************)
Procs == 1..NumProcs

NoLock == [lockId |-> 0, acquiredBy |-> 0, acquiredAt |-> 0, ttl |-> 0]

\* str(uuid4()): a token no other acquire attempt has
Uuid4(p, n) == (n - 1) * NumProcs + p

\* a record whose ttl attribute lies beyond every clock value
NewLockRecordNoExpiry(p, n, now, ttlSeconds) ==
    [lockId |-> Uuid4(p, n), acquiredBy |-> p, acquiredAt |-> now,
     ttl |-> now + ttlSeconds + MaxLiveTime]

\* acquire_lock: the LockRecord built before the put
NewLockRecord(p, n, now, ttlSeconds) ==
    [lockId |-> Uuid4(p, n), acquiredBy |-> p, acquiredAt |-> now, ttl |-> now + ttlSeconds]

\* a condition that also lets the put through over a record whose ttl has passed
PutConditionHoldsOrExpired(rec) == rec = NoLock \/ rec.ttl < clock

\* put_item(..., ConditionExpression="attribute_not_exists(PK)")
PutConditionHoldsAlways(rec) == TRUE

PutConditionHolds(rec) == rec = NoLock

\* a release that reports the mismatch after the record is gone
ReleaseLockDeletesThenRaises(rec, lock_id) ==
    IF lock_id # 0 /\ rec.lockId # lock_id
      THEN [raised |-> TRUE, rec |-> NoLock, released |-> FALSE]
      ELSE [raised |-> FALSE, rec |-> NoLock, released |-> rec # NoLock]

\* a release that answers True and leaves the record in the table
ReleaseLockLeavesRecord(rec, lock_id) ==
    IF lock_id # 0 /\ rec.lockId # lock_id
      THEN [raised |-> TRUE, rec |-> rec, released |-> FALSE]
      ELSE [raised |-> FALSE, rec |-> rec, released |-> rec # NoLock]

\* a release conditioned on the record existing, not on its token
ReleaseLockIfPresent(rec, lock_id) ==
    IF lock_id # 0 /\ rec = NoLock
      THEN [raised |-> TRUE, rec |-> rec, released |-> FALSE]
      ELSE [raised |-> FALSE, rec |-> NoLock, released |-> rec # NoLock]

\* release_lock: delete_item with ReturnValues=ALL_OLD, conditioned on
\* "lockId = :lock_id" when a lock_id is given (a missing item fails the condition)
ReleaseLockIgnoresOwner(rec, lock_id) ==
    [raised |-> FALSE, rec |-> NoLock, released |-> rec # NoLock]

ReleaseLock(rec, lock_id) ==
    IF lock_id # 0 /\ rec.lockId # lock_id
      THEN [raised |-> TRUE, rec |-> rec, released |-> FALSE]
      ELSE [raised |-> FALSE, rec |-> NoLock, released |-> rec # NoLock]

LockInit ==
    /\ lockRec = NoLock
    /\ clock = 0
    /\ lpc = [p \in Procs |-> "idle"]
    /\ ltoken = [p \in Procs |-> 0]
    /\ lout = [p \in Procs |-> "none"]
    /\ lrel = [p \in Procs |-> "none"]
    /\ lattempts = [p \in Procs |-> 0]
    /\ forced = FALSE
    /\ overstayed = FALSE
    /\ lwon = {}
    /\ llost = 0
    /\ lremoved = FALSE

\* acquire_lock: build the LockRecord, put it under the condition, return it
\* or raise LockAlreadyHeldError.  `held` is where the caller is once it has
\* the lock: "cs" inside a held_lock scope, "holding" after a call on its own.
AcquireLockCall(p, ttlSeconds, held) ==
    /\ lpc[p] \in {"idle", "done", "failed"}
    /\ lattempts[p] < MaxAttempts
    /\ lattempts' = [lattempts EXCEPT ![p] = @ + 1]
    /\ lrel' = [lrel EXCEPT ![p] = "none"]
    /\ LET rec == NewLockRecord(p, lattempts[p] + 1, clock, ttlSeconds) IN
         IF PutConditionHolds(lockRec)
           THEN /\ lockRec' = rec
                /\ ltoken' = [ltoken EXCEPT ![p] = rec.lockId]
                /\ lpc' = [lpc EXCEPT ![p] = held]
                /\ lout' = [lout EXCEPT ![p] = "acquired"]
                /\ lwon' = IF lremoved THEN lwon ELSE lwon \cup {rec.lockId}
                /\ llost' = llost
           ELSE /\ lockRec' = lockRec
                /\ ltoken' = [ltoken EXCEPT ![p] = 0]
                /\ lpc' = [lpc EXCEPT ![p] = "failed"]
                /\ lout' = [lout EXCEPT ![p] = "LockAlreadyHeldError"]
                /\ lwon' = lwon
                /\ llost' = IF lremoved THEN llost ELSE llost + 1
    /\ UNCHANGED <<clock, forced, overstayed, lremoved, notLock>>

\* held_lock: record = acquire_lock(...); yield record
HeldLockEnter(p, ttlSeconds) == AcquireLockCall(p, ttlSeconds, "cs")

\* acquire_lock called on its own
AcquireLock(p, ttlSeconds) == AcquireLockCall(p, ttlSeconds, "holding")

\* held_lock: the body of the with statement ends, normally or by raising
BodyExit(p, raised) ==
    /\ lpc[p] = "cs"
    /\ lpc' = [lpc EXCEPT ![p] = "finally"]
    /\ lout' = [lout EXCEPT ![p] = IF raised THEN "BodyError" ELSE "ok"]
    /\ UNCHANGED <<lockRec, clock, ltoken, lrel, lattempts, forced, overstayed, lwon,
                   llost, lremoved, notLock>>

\* a scope whose failed release takes the place of the body's outcome
ScopeReleaseRaisesMismatch(p) ==
    /\ lpc[p] = "finally"
    /\ LET r == ReleaseLock(lockRec, ltoken[p]) IN
         /\ lockRec' = r.rec
         /\ lrel' = [lrel EXCEPT ![p] = IF r.raised THEN "LockOwnershipError"
                                        ELSE IF r.released THEN "released"
                                        ELSE "not_present"]
         /\ lout' = [lout EXCEPT ![p] = IF r.raised THEN "LockOwnershipError" ELSE @]
         /\ lremoved' = (lremoved \/ r.released)
         /\ lwon' = IF r.released THEN {} ELSE lwon
         /\ llost' = IF r.released THEN 0 ELSE llost
    /\ lpc' = [lpc EXCEPT ![p] = "done"]
    /\ UNCHANGED <<clock, ltoken, lattempts, forced, overstayed, notLock>>

\* held_lock: finally: release_lock(lock_id=record.lock_id); a
\* LockOwnershipError is passed over and the body's outcome stands
ScopeRelease(p) ==
    /\ lpc[p] = "finally"
    /\ LET r == ReleaseLock(lockRec, ltoken[p]) IN
         /\ lockRec' = r.rec
         /\ lrel' = [lrel EXCEPT ![p] = IF r.raised THEN "LockOwnershipError"
                                        ELSE IF r.released THEN "released"
                                        ELSE "not_present"]
         /\ lremoved' = (lremoved \/ r.released)
         /\ lwon' = IF r.released THEN {} ELSE lwon
         /\ llost' = IF r.released THEN 0 ELSE llost
    /\ lpc' = [lpc EXCEPT ![p] = "done"]
    /\ UNCHANGED <<clock, ltoken, lout, lattempts, forced, overstayed, notLock>>

\* release_lock called on its own by an operator that holds a token: with that
\* token, with a token that is not the stored one, or with none (unconditional)
ReleaseKinds == {"own", "wrong", "none"}

ReleaseCall(p, kind) ==
    /\ lpc[p] = "holding"
    /\ LET id == CASE kind = "own" -> ltoken[p]
                   [] kind = "wrong" -> 0 - ltoken[p]
                   [] OTHER -> 0
           r == ReleaseLock(lockRec, id)
       IN /\ lockRec' = r.rec
          /\ lrel' = [lrel EXCEPT ![p] = IF r.raised THEN "LockOwnershipError"
                                         ELSE IF r.released THEN "released"
                                         ELSE "not_present"]
          /\ forced' = (forced \/ id = 0)
          /\ lremoved' = (lremoved \/ r.released)
          /\ lwon' = IF r.released THEN {} ELSE lwon
          /\ llost' = IF r.released THEN 0 ELSE llost
    /\ lpc' = [lpc EXCEPT ![p] = "done"]
    /\ UNCHANGED <<clock, ltoken, lout, lattempts, overstayed, notLock>>

\* the current holder, when it is inside its critical section
HolderInside ==
    {p \in Procs : lpc[p] = "cs" /\ lockRec # NoLock /\ ltoken[p] = lockRec.lockId}

\* time passes; a record whose ttl is behind the clock has expired
Tick ==
    /\ clock < MaxTime
    /\ clock' = clock + 1
    /\ overstayed' = (overstayed \/ (HolderInside # {} /\ lockRec.ttl < clock + 1))
    /\ UNCHANGED <<lockRec, lpc, ltoken, lout, lrel, lattempts, forced, lwon, llost,
                   lremoved, notLock>>

\* the table's time-to-live: an item whose ttl has passed is removed
Expire ==
    /\ lockRec # NoLock
    /\ lockRec.ttl < clock
    /\ lockRec' = NoLock
    /\ lremoved' = TRUE
    /\ lwon' = {}
    /\ llost' = 0
    /\ UNCHANGED <<clock, lpc, ltoken, lout, lrel, lattempts, forced, overstayed, notLock>>

\* runs in which every holder crashes after its acquire: nobody releases, time
\* passes and the table expires records; an acquire is made only while its
\* record can still expire before the clock ends
CrashingAcquire(p, ttlSeconds) ==
    /\ clock + ttlSeconds < MaxLiveTime
    /\ AcquireLock(p, ttlSeconds)

LiveTick ==
    /\ clock < MaxLiveTime
    /\ clock' = clock + 1
    /\ overstayed' = (overstayed \/ (HolderInside # {} /\ lockRec.ttl < clock + 1))
    /\ UNCHANGED <<lockRec, lpc, ltoken, lout, lrel, lattempts, forced, lwon, llost,
                   lremoved, notLock>>

LockLiveNext ==
    \/ \E p \in Procs, t \in 1..MaxTtl : CrashingAcquire(p, t)
    \/ LiveTick
    \/ Expire

LockNext ==
    \/ \E p \in Procs, t \in 1..MaxTtl : HeldLockEnter(p, t)
    \/ \E p \in Procs, t \in 1..MaxTtl : AcquireLock(p, t)
    \/ \E p \in Procs, raised \in BOOLEAN : BodyExit(p, raised)
    \/ \E p \in Procs : ScopeRelease(p)
    \/ \E p \in Procs, kind \in ReleaseKinds : ReleaseCall(p, kind)
    \/ Tick
    \/ Expire

(***************************************************************************)
(* Failover lock command line: main, cmd_acquire, cmd_release and the      *)
(* local token file.  Each command is one run of the script on an          *)
(* operator's machine.                                                     *)
(***************************************************************************)
\* no token file, no command run yet
NoCli == [token |-> 0, cmd |-> "none", exit |-> 0 - 1, released |-> FALSE]

\* a --lock-id that is the id of no record
WRONG_LOCK_ID == 0 - 1

CliInit ==
    /\ cli = [p \in Procs |-> NoCli]
    /\ cliOps = 0

\* a release that looks only at --lock-id
CmdReleaseLockIdArgOnly(arg, token) == arg

\* cmd_release: --lock-id when given, else the lock_id of the saved local token
CmdReleaseLockId(arg, token) == IF arg = 0 /\ token # 0 THEN token ELSE arg

\* cmd_acquire: acquire_lock; on LockAlreadyHeldError return 1; else
\* save_local_token and return 0
CmdAcquire(p, ttlSeconds) ==
    /\ cliOps < MaxCliOps
    /\ cliOps' = cliOps + 1
    /\ LET rec == NewLockRecord(p, cliOps + 1, clock, ttlSeconds) IN
         IF PutConditionHolds(lockRec)
           THEN /\ lockRec' = rec
                /\ cli' = [cli EXCEPT ![p] = [token |-> rec.lockId, cmd |-> "acquire",
                                             exit |-> 0, released |-> FALSE]]
           ELSE /\ lockRec' = lockRec
                /\ cli' = [cli EXCEPT ![p] = [token |-> cli[p].token, cmd |-> "acquire",
                                             exit |-> 1, released |-> FALSE]]
    /\ UNCHANGED <<clock, lpc, ltoken, lout, lrel, lattempts, forced, overstayed, lwon,
                   llost, lremoved, notCli>>

\* cmd_release: without a lock id and without --force return 2; release_lock;
\* on LockOwnershipError return 1; else clear_local_token and return 0
CmdRelease(p, arg, force) ==
    /\ cliOps < MaxCliOps
    /\ cliOps' = cliOps + 1
    /\ LET lock_id == CmdReleaseLockId(arg, cli[p].token)
           r == ReleaseLock(lockRec, IF force THEN 0 ELSE lock_id)
           cmd == IF force THEN "release_force"
                  ELSE IF arg = 0 THEN "release" ELSE "release_id"
       IN IF lock_id = 0 /\ ~force
            THEN /\ lockRec' = lockRec
                 /\ cli' = [cli EXCEPT ![p] = [token |-> cli[p].token, cmd |-> cmd,
                                              exit |-> 2, released |-> FALSE]]
            ELSE IF r.raised
              THEN /\ lockRec' = lockRec
                   /\ cli' = [cli EXCEPT ![p] = [token |-> cli[p].token, cmd |-> cmd,
                                                exit |-> 1, released |-> FALSE]]
              ELSE /\ lockRec' = r.rec
                   /\ cli' = [cli EXCEPT ![p] = [token |-> 0, cmd |-> cmd,
                                                exit |-> 0, released |-> r.released]]
    /\ UNCHANGED <<clock, lpc, ltoken, lout, lrel, lattempts, forced, overstayed, lwon,
                   llost, lremoved, notCli>>

\* the values --lock-id is given: none, the id of the record in the table, a wrong one
LockIdArgs == {0, lockRec.lockId, WRONG_LOCK_ID}

CliNext ==
    \/ \E p \in Procs, t \in 1..MaxTtl : CmdAcquire(p, t)
    \/ \E p \in Procs, arg \in LockIdArgs, force \in BOOLEAN : CmdRelease(p, arg, force)
    \/ Tick
    \/ Expire

(***************************************************************************)
(* Bridge Lambda (src/bridge/handler.py): handler and what it calls.       *)
(***************************************************************************)
Tiers == {"basic", "standard", "premium"}

\* the tier claim the authoriser passes on; "gold" is not a TenantTier
TierClaims == Tiers \cup {"gold"}

InvocationModes == {"sync", "streaming", "async"}

tier_order == [t \in Tiers |-> CASE t = "basic" -> 0 [] t = "standard" -> 1 [] OTHER -> 2]

TierInsufficientOrEqual(tenant_tier, tier_minimum) ==
    tier_order[tenant_tier] <= tier_order[tier_minimum]

\* if tier_order[tenant_tier] < tier_order[agent.tier_minimum]
TierInsufficient(tenant_tier, tier_minimum) ==
    tier_order[tenant_tier] < tier_order[tier_minimum]

\* platform-agents: the versions of the one registered agent name
VERSION_PREFIX == <<"V", "E", "R", "S", "I", "O", "N", "#">>
V190 == <<"1", ".", "9", ".", "0">>
V1100 == <<"1", ".", "1", "0", ".", "0">>
Versions == {V190, V1100}
ECHO == "echo"
AgentNames == {"", ECHO, "ghost"}

AgentSk(version) == VERSION_PREFIX \o version

NotRegistered == [present |-> FALSE, tier_minimum |-> "basic", invocation_mode |-> "sync"]

Registered(tmin, mode) == [present |-> TRUE, tier_minimum |-> tmin, invocation_mode |-> mode]

\* registries the requests run against: nothing registered, one version with any
\* minimum tier and mode, or two versions that differ in their minimum tier
Registries ==
    {[v \in Versions |-> NotRegistered]}
    \cup {[v \in Versions |-> IF v = V190 THEN Registered(t, m) ELSE NotRegistered] :
            t \in Tiers, m \in InvocationModes}
    \cup {[v \in Versions |-> IF v = V190 THEN Registered(t, "sync")
                              ELSE Registered(u, "sync")] :
            t \in Tiers, u \in Tiers}

NoAgent == [found |-> FALSE, agent_name |-> "", version |-> <<>>,
            tier_minimum |-> "basic", invocation_mode |-> "sync"]

\* table.query(PK = AGENT#name, ScanIndexForward=False, Limit=1): the item with
\* the greatest sort key, in the table's string order
LatestVersion(reg) ==
    LET present == {v \in Versions : reg[v].present} IN
    CHOOSE v \in present : \A w \in present \ {v} : StrLess(AgentSk(w), AgentSk(v))

\* a lookup that answers with a default record when nothing is registered
GetAgentRecordDefault(reg, agent_name, tableOk) ==
    IF ~tableOk \/ agent_name # ECHO \/ \A v \in Versions : ~reg[v].present
      THEN [found |-> TRUE, agent_name |-> agent_name, version |-> V190,
            tier_minimum |-> "basic", invocation_mode |-> "sync"]
      ELSE LET v == LatestVersion(reg) IN
           [found |-> TRUE, agent_name |-> agent_name, version |-> v,
            tier_minimum |-> reg[v].tier_minimum,
            invocation_mode |-> reg[v].invocation_mode]

\* get_agent_record(agent_name): None when nothing is found and when the lookup raises
GetAgentRecord(reg, agent_name, tableOk) ==
    IF ~tableOk \/ agent_name # ECHO \/ \A v \in Versions : ~reg[v].present
      THEN NoAgent
      ELSE LET v == LatestVersion(reg) IN
           [found |-> TRUE, agent_name |-> agent_name, version |-> v,
            tier_minimum |-> reg[v].tier_minimum,
            invocation_mode |-> reg[v].invocation_mode]

CONFIG_CACHE_TTL == 60

\* seconds between two requests: inside the cache's lifetime, or at its end
TimeSteps == {CONFIG_CACHE_TTL - 1, CONFIG_CACHE_TTL}

EmptyCache == [set |-> FALSE, mock_runtime_url |-> "None"]

SsmOutcomes == {"url", "no_url", "fail"}

\* a get_config that starts a new cache lifetime also when the fetch failed
GetConfigFailureRestartsTtl(cache, expiry, now, ssm) ==
    IF now < expiry
      THEN [config |-> cache, cache |-> cache, expiry |-> expiry, fetched |-> FALSE]
    ELSE IF ssm = "fail"
      THEN [config |-> IF cache.set THEN cache ELSE EmptyCache,
            cache |-> cache, expiry |-> now + CONFIG_CACHE_TTL, fetched |-> TRUE]
    ELSE LET new == [set |-> TRUE,
                     mock_runtime_url |-> IF ssm = "url" THEN "url" ELSE "None"]
         IN [config |-> new, cache |-> new, expiry |-> now + CONFIG_CACHE_TTL,
             fetched |-> TRUE]

\* get_config(): [value returned, cache and expiry afterwards, whether SSM was asked]
GetConfig(cache, expiry, now, ssm) ==
    IF now < expiry
      THEN [config |-> cache, cache |-> cache, expiry |-> expiry, fetched |-> FALSE]
    ELSE IF ssm = "fail"
      THEN [config |-> IF cache.set THEN cache ELSE EmptyCache,
            cache |-> cache, expiry |-> expiry, fetched |-> TRUE]
    ELSE LET new == [set |-> TRUE,
                     mock_runtime_url |-> IF ssm = "url" THEN "url" ELSE "None"]
         IN [config |-> new, cache |-> new, expiry |-> now + CONFIG_CACHE_TTL,
             fetched |-> TRUE]

\* responses
NoResp == [kind |-> "none", status |-> 0, code |-> "none"]
ErrorResponse(status, code) == [kind |-> "response", status |-> status, code |-> code]
OkResponse(status) == [kind |-> "response", status |-> status, code |-> "ok"]
Uncaught(exc) == [kind |-> "raised", status |-> 0, code |-> exc]
ReturnsNone == [kind |-> "response", status |-> 0, code |-> "None"]

NoCtx == [tenant_id |-> <<>>, tier |-> "basic", agent_name |-> "", stream |-> FALSE,
          agent |-> NoAgent, id |-> 0]

\* an audit item keyed outside every tenant partition
InvocationItemUnpartitioned(ctx, status, mode, job_id) ==
    [PK |-> StrVal(INV_PREFIX), SK |-> INV_PREFIX, tenant_id |-> ctx.tenant_id,
     invocation_id |-> ctx.id, status |-> status, invocation_mode |-> mode,
     job_id |-> job_id]

\* log_invocation: the InvocationRecord item, written through the Guard; any
\* exception (a TenantAccessViolation, a failed write) is logged and dropped
InvocationItem(ctx, status, mode, job_id) ==
    [PK |-> TenantPk(ctx.tenant_id), SK |-> INV_PREFIX, tenant_id |-> ctx.tenant_id,
     invocation_id |-> ctx.id, status |-> status, invocation_mode |-> mode,
     job_id |-> job_id]

LogInvocation(ctx, status, mode, job_id, ddbOk) ==
    LET item == InvocationItem(ctx, status, mode, job_id) IN
    IF ValidatePkFails(ctx.tenant_id, item)
      THEN <<[e |-> "violation", item |-> item]>>
    ELSE IF ~ddbOk THEN <<[e |-> "inv_write_failed", item |-> item]>>
    ELSE <<[e |-> "inv_write", item |-> item]>>

\* log_job: the JobRecord item, written through the Guard under PK JOB#<id>
JobItem(ctx, job_id) ==
    [PK |-> StrVal(JOB_PREFIX), SK |-> METADATA, job_id |-> job_id,
     tenant_id |-> ctx.tenant_id, agent_name |-> ctx.agent.agent_name,
     status |-> "pending"]

LogJob(ctx, job_id, ddbOk) ==
    LET item == JobItem(ctx, job_id) IN
    IF ValidatePkFails(ctx.tenant_id, item)
      THEN <<[e |-> "violation", item |-> item]>>
    ELSE IF ~ddbOk THEN <<[e |-> "job_write_failed", item |-> item]>>
    ELSE <<[e |-> "job_write", item |-> item]>>

RECURSIVE ItemsOf(_, _)
ItemsOf(trace, kind) ==
    IF trace = <<>> THEN {}
    ELSE (IF Head(trace).e = kind THEN {Head(trace).item} ELSE {})
         \cup ItemsOf(Tail(trace), kind)

\* the request ends: the handler returns resp (or raises), having done `events`
BridgeReturn(ctx, resp, events) ==
    /\ bpc' = "done"
    /\ bctx' = ctx
    /\ bresp' = resp
    /\ btrace' = btrace \o events
    /\ invTable' = invTable \cup ItemsOf(events, "inv_write")
    /\ jobTable' = jobTable \cup ItemsOf(events, "job_write")
    /\ bsnap' = bsnap

\* the handler goes on to its next stage
BridgeStep(next, ctx, events) ==
    /\ bpc' = next
    /\ bctx' = ctx
    /\ btrace' = btrace \o events
    /\ UNCHANGED <<bresp, invTable, jobTable, bsnap>>

BridgeInit ==
    /\ registry \in Registries
    /\ invTable = {}
    /\ jobTable = {}
    /\ cfgCache = EmptyCache
    /\ cfgExpiry = 0
    /\ bnow = 0
    /\ breqs = 0
    /\ bpc = "idle"
    /\ bctx = NoCtx
    /\ btrace = <<>>
    /\ bresp = NoResp
    /\ bsnap = [inv |-> {}, job |-> {}]

\* handler, 1. Parse Authorizer Context
HandlerBegin(tenantid, appid, tier_str, dt) ==
    /\ bpc \in {"idle", "done"}
    /\ breqs < MaxReqs
    /\ breqs' = breqs + 1
    /\ bnow' = bnow + dt
    /\ btrace' = <<>>
    /\ bsnap' = [inv |-> invTable, job |-> jobTable]
    /\ IF tenantid = <<>> \/ ~appid
         THEN /\ bpc' = "done"
              /\ bctx' = [NoCtx EXCEPT !.id = breqs + 1]
              /\ bresp' = ErrorResponse(401, "UNAUTHENTICATED")
       ELSE IF tier_str \notin Tiers
         THEN /\ bpc' = "done"
              /\ bctx' = [NoCtx EXCEPT !.id = breqs + 1, !.tenant_id = tenantid]
              /\ bresp' = Uncaught("ValueError")
       ELSE /\ bpc' = "parse"
            /\ bctx' = [NoCtx EXCEPT !.id = breqs + 1, !.tenant_id = tenantid,
                                     !.tier = tier_str]
            /\ bresp' = NoResp
    /\ UNCHANGED <<registry, invTable, jobTable, cfgCache, cfgExpiry, notBridge>>

BodyKinds == {"ok", "no_input", "bad_json", "not_object"}

\* handler, 2. Parse Path Parameters and 3. Parse Request Body
ParseRequest(agent_name, body, stream) ==
    /\ bpc = "parse"
    /\ IF agent_name = "" THEN BridgeReturn(bctx, ErrorResponse(400, "INVALID_REQUEST"), <<>>)
       ELSE IF body = "bad_json"
         THEN BridgeReturn(bctx, ErrorResponse(400, "INVALID_REQUEST"), <<>>)
       ELSE IF body = "not_object"
         THEN BridgeReturn(bctx, Uncaught("AttributeError"), <<>>)
       ELSE IF body = "no_input"
         THEN BridgeReturn(bctx, ErrorResponse(400, "INVALID_REQUEST"), <<>>)
       ELSE BridgeStep("lookup", [bctx EXCEPT !.agent_name = agent_name,
                                              !.stream = stream], <<>>)
    /\ UNCHANGED <<registry, cfgCache, cfgExpiry, bnow, breqs, notBridge>>

\* handler, 4. Lookup Agent
LookupAgent(tableOk) ==
    /\ bpc = "lookup"
    /\ LET agent == GetAgentRecord(registry, bctx.agent_name, tableOk) IN
         IF ~agent.found
           THEN BridgeReturn(bctx, ErrorResponse(404, "NOT_FOUND"), <<>>)
           ELSE BridgeStep("tier", [bctx EXCEPT !.agent = agent], <<>>)
    /\ UNCHANGED <<registry, cfgCache, cfgExpiry, bnow, breqs, notBridge>>

\* a handler that records the refused attempt before answering 403
ValidateTierAuditsRefusal ==
    /\ bpc = "tier"
    /\ IF TierInsufficient(bctx.tier, bctx.agent.tier_minimum)
         THEN BridgeReturn(bctx, ErrorResponse(403, "FORBIDDEN"),
                           LogInvocation(bctx, "error", "sync", 0, TRUE))
         ELSE BridgeStep("config", bctx, <<>>)
    /\ UNCHANGED <<registry, cfgCache, cfgExpiry, bnow, breqs, notBridge>>

\* handler, 5. Validate Tier
ValidateTier ==
    /\ bpc = "tier"
    /\ IF TierInsufficient(bctx.tier, bctx.agent.tier_minimum)
         THEN BridgeReturn(bctx, ErrorResponse(403, "FORBIDDEN"), <<>>)
         ELSE BridgeStep("config", bctx, <<>>)
    /\ UNCHANGED <<registry, cfgCache, cfgExpiry, bnow, breqs, notBridge>>

\* handler, 6. Get Config, and the choice of 7. Invoke Agent
HandlerGetConfig(ssm) ==
    /\ bpc = "config"
    /\ LET r == GetConfig(cfgCache, cfgExpiry, bnow, ssm)
           ev == <<[e |-> "get_config", fetched |-> r.fetched]>>
       IN /\ cfgCache' = r.cache
          /\ cfgExpiry' = r.expiry
          /\ IF r.config.mock_runtime_url # "None"
               THEN BridgeStep("invoke", bctx, ev)
               ELSE BridgeReturn(bctx, ErrorResponse(501, "NOT_IMPLEMENTED"), ev)
    /\ UNCHANGED <<registry, bnow, breqs, notBridge>>

Post(outcome) == [e |-> "runtime_post", outcome |-> outcome]

BAD_GATEWAY == ErrorResponse(502, "BAD_GATEWAY")

SyncOutcomes == {"ok", "connection_error", "http_error", "timeout"}

\* a sync invocation that does not look at the status of the runtime's response
HandleSyncInvocationNoStatusCheck(rt, invOk) ==
    /\ bpc = "invoke"
    /\ bctx.agent.invocation_mode \notin {"streaming", "async"}
    /\ IF rt \in {"ok", "http_error"}
         THEN BridgeReturn(bctx, OkResponse(200),
                           <<Post(rt)>> \o LogInvocation(bctx, "success", "sync", 0, invOk))
         ELSE BridgeReturn(bctx, BAD_GATEWAY, <<Post(rt)>>)
    /\ UNCHANGED <<registry, cfgCache, cfgExpiry, bnow, breqs, notBridge>>

\* invoke_mock_runtime -> handle_sync_invocation
HandleSyncInvocation(rt, invOk) ==
    /\ bpc = "invoke"
    /\ bctx.agent.invocation_mode \notin {"streaming", "async"}
    /\ IF rt = "ok"
         THEN BridgeReturn(bctx, OkResponse(200),
                           <<Post(rt)>> \o LogInvocation(bctx, "success", "sync", 0, invOk))
         ELSE BridgeReturn(bctx, BAD_GATEWAY, <<Post(rt)>>)
    /\ UNCHANGED <<registry, cfgCache, cfgExpiry, bnow, breqs, notBridge>>

\* the lines the runtime streams; iter_lines yields empty keep-alive lines too
RuntimeLines == <<"d1", "", "DONE">>

\* a relay that writes the lines it holds in the reverse of their order
RECURSIVE RelayReversed(_)
RelayReversed(lines) ==
    IF lines = <<>> THEN <<>>
    ELSE RelayReversed(Tail(lines)) \o
         (IF Head(lines) # "" THEN <<[e |-> "stream_write", line |-> Head(lines)]>>
          ELSE <<>>)

RECURSIVE Relay(_)
Relay(lines) ==
    IF lines = <<>> THEN <<>>
    ELSE (IF Head(lines) # "" THEN <<[e |-> "stream_write", line |-> Head(lines)]>>
          ELSE <<>>) \o Relay(Tail(lines))

StreamOutcomes == {"ok", "connection_error", "http_error"}

\* invoke_mock_runtime -> handle_streaming_invocation; the stream breaks after
\* `got` lines, or runs to its end
HandleStreamingInvocation(rt, got, invOk) ==
    /\ bpc = "invoke"
    /\ bctx.agent.invocation_mode = "streaming"
    /\ IF ~bctx.stream
         THEN BridgeReturn(bctx, ErrorResponse(500, "INTERNAL_ERROR"), <<>>)
       ELSE IF rt # "ok"
         THEN BridgeReturn(bctx, BAD_GATEWAY, <<Post(rt)>>)
       ELSE IF got < Len(RuntimeLines)
         THEN BridgeReturn(bctx, BAD_GATEWAY,
                           <<Post(rt)>> \o Relay(SubSeq(RuntimeLines, 1, got)))
       ELSE BridgeReturn(bctx, ReturnsNone,
                         <<Post(rt)>> \o Relay(RuntimeLines)
                         \o LogInvocation(bctx, "success", "streaming", 0, invOk))
    /\ UNCHANGED <<registry, cfgCache, cfgExpiry, bnow, breqs, notBridge>>

AsyncOutcomes == {"ok", "read_timeout", "connection_error", "http_error"}

\* requests.post(..., timeout=2) inside try / except ReadTimeout: pass; a
\* response with an error status is a response
AsyncPostTolerated(rt) == rt \in {"ok", "read_timeout", "http_error"}

\* invoke_mock_runtime -> handle_async_invocation
HandleAsyncInvocation(jobOk, rt, invOk) ==
    /\ bpc = "invoke"
    /\ bctx.agent.invocation_mode = "async"
    /\ IF AsyncPostTolerated(rt)
         THEN BridgeReturn(bctx, OkResponse(202),
                           LogJob(bctx, bctx.id, jobOk) \o <<Post(rt)>>
                           \o LogInvocation(bctx, "success", "async", bctx.id, invOk))
         ELSE BridgeReturn(bctx, BAD_GATEWAY, LogJob(bctx, bctx.id, jobOk) \o <<Post(rt)>>)
    /\ UNCHANGED <<registry, cfgCache, cfgExpiry, bnow, breqs, notBridge>>

BridgeNext ==
    \/ \E t \in {<<>>, TenantA, TenantB}, appid \in BOOLEAN, tier \in TierClaims,
          dt \in TimeSteps : HandlerBegin(t, appid, tier, dt)
    \/ \E a \in AgentNames, body \in BodyKinds, stream \in BOOLEAN :
          ParseRequest(a, body, stream)
    \/ \E tableOk \in BOOLEAN : LookupAgent(tableOk)
    \/ ValidateTier
    \/ \E ssm \in SsmOutcomes : HandlerGetConfig(ssm)
    \/ \E rt \in SyncOutcomes, invOk \in BOOLEAN : HandleSyncInvocation(rt, invOk)
    \/ \E rt \in StreamOutcomes, got \in 0..Len(RuntimeLines), invOk \in BOOLEAN :
          HandleStreamingInvocation(rt, got, invOk)
    \/ \E jobOk \in BOOLEAN, rt \in AsyncOutcomes, invOk \in BOOLEAN :
          HandleAsyncInvocation(jobOk, rt, invOk)

(***************************************************************************)
(* Tenant API Lambda (src/tenant_api/handler.py): lambda_handler and the   *)
(* create, read and list routes.  Invocations of the Lambda run            *)
(* concurrently; each call it makes to a service is one step.              *)
(***************************************************************************)
ApiTenantIds == {TenantA, TenantB}

\* concurrent invocations of the Lambda
Invocations == {1, 2}

\* CallerIdentity: Platform.Admin role or not, and the tenantid of the token
\* (<<>> when the token carries none)
CallerIdentities ==
    {[admin |-> TRUE, tenant_id |-> <<>>]}
    \cup {[admin |-> FALSE, tenant_id |-> t] : t \in ApiTenantIds \cup {<<>>}}

NoTenantReq == [pc |-> "idle", route |-> "none", caller |-> [admin |-> FALSE, tenant_id |-> <<>>],
                tenant_id |-> <<>>, resp |-> NoResp, items |-> {}, reads |-> {}]

\* a check that lets every caller with a tenant read every tenant
CanReadTenantAnyTenant(caller, tenant_id) == caller.admin \/ caller.tenant_id # <<>>

\* _can_read_tenant
CanReadTenant(caller, tenant_id) == caller.admin \/ caller.tenant_id = tenant_id

\* _handle_read: [response, tenants in the body, tenant records read from the table]
HandleRead(tbl, caller, tenant_id) ==
    IF ~CanReadTenant(caller, tenant_id)
      THEN [resp |-> ErrorResponse(403, "FORBIDDEN"), items |-> {}, reads |-> {}]
    ELSE IF ~tbl[tenant_id]
      THEN [resp |-> ErrorResponse(404, "NOT_FOUND"), items |-> {}, reads |-> {tenant_id}]
    ELSE [resp |-> OkResponse(200), items |-> {tenant_id}, reads |-> {tenant_id}]

\* _handle_list: a non-admin gets its own tenant through _handle_read, an
\* admin gets the scan of the table
HandleList(tbl, caller) ==
    IF ~caller.admin
      THEN IF caller.tenant_id # <<>>
             THEN LET r == HandleRead(tbl, caller, caller.tenant_id) IN
                  [resp |-> OkResponse(200),
                   items |-> IF r.resp.status = 200 THEN r.items ELSE {},
                   reads |-> r.reads]
             ELSE [resp |-> OkResponse(200), items |-> {}, reads |-> {}]
      ELSE [resp |-> OkResponse(200), items |-> {t \in ApiTenantIds : tbl[t]},
            reads |-> ApiTenantIds]

\* tenants registered before, each with its API-key secret
TenantApiInit ==
    /\ tenantsTable \in [ApiTenantIds -> BOOLEAN]
    /\ treq = [h \in Invocations |-> NoTenantReq]
    /\ treqs = 0
    /\ memCalls = [t \in ApiTenantIds |-> 0]
    /\ secrets = {t \in ApiTenantIds : tenantsTable[t]}
    /\ tevents = [t \in ApiTenantIds |-> 0]

TenantApiQuiet ==
    /\ tenantsTable = [t \in ApiTenantIds |-> FALSE]
    /\ treq = [h \in Invocations |-> NoTenantReq]
    /\ treqs = 0
    /\ memCalls = [t \in ApiTenantIds |-> 0]
    /\ secrets = {}
    /\ tevents = [t \in ApiTenantIds |-> 0]

\* the invocation answers
TenantReturn(h, resp) ==
    treq' = [treq EXCEPT ![h].pc = "done", ![h].resp = resp]

\* lambda_handler: GET /v1/tenants/{id} and GET /v1/tenants run to their
\* answer; POST /v1/tenants runs _handle_create up to its first call of the
\* table (_require_admin, body and required fields)
LambdaHandler(h, route, caller, tenant_id, bodyOk) ==
    /\ treq[h].pc \in {"idle", "done"}
    /\ treqs < MaxTenantReqs
    /\ treqs' = treqs + 1
    /\ LET req == [NoTenantReq EXCEPT !.route = route, !.caller = caller,
                                      !.tenant_id = tenant_id]
       IN CASE route = "read" ->
                 LET r == HandleRead(tenantsTable, caller, tenant_id) IN
                 treq' = [treq EXCEPT ![h] = [req EXCEPT !.pc = "done", !.resp = r.resp,
                                                        !.items = r.items, !.reads = r.reads]]
            [] route = "list" ->
                 LET r == HandleList(tenantsTable, caller) IN
                 treq' = [treq EXCEPT ![h] = [req EXCEPT !.pc = "done", !.resp = r.resp,
                                                        !.items = r.items, !.reads = r.reads,
                                                        !.tenant_id = <<>>]]
            [] OTHER ->
                 IF ~caller.admin
                   THEN treq' = [treq EXCEPT ![h] =
                                   [req EXCEPT !.pc = "done",
                                               !.resp = ErrorResponse(403, "FORBIDDEN")]]
                 ELSE IF ~bodyOk
                   THEN treq' = [treq EXCEPT ![h] =
                                   [req EXCEPT !.pc = "done",
                                               !.resp = ErrorResponse(400, "BAD_REQUEST")]]
                 ELSE treq' = [treq EXCEPT ![h] = [req EXCEPT !.pc = "read"]]
    /\ UNCHANGED <<tenantsTable, memCalls, secrets, tevents, notTenantApi>>

\* _handle_create: _read_tenant_record(...) is not None -> 409
CreateReadExisting(h) ==
    /\ treq[h].pc = "read"
    /\ IF tenantsTable[treq[h].tenant_id]
         THEN treq' = [treq EXCEPT ![h].pc = "done", ![h].reads = {treq[h].tenant_id},
                                   ![h].resp = ErrorResponse(409, "CONFLICT")]
         ELSE treq' = [treq EXCEPT ![h].pc = "provision", ![h].reads = {treq[h].tenant_id}]
    /\ UNCHANGED <<tenantsTable, treqs, memCalls, secrets, tevents, notTenantApi>>

\* _handle_create: deps.memory_provisioner.provision(...)
CreateProvisionMemory(h) ==
    /\ treq[h].pc = "provision"
    /\ memCalls' = [memCalls EXCEPT ![treq[h].tenant_id] = @ + 1]
    /\ treq' = [treq EXCEPT ![h].pc = "secret"]
    /\ UNCHANGED <<tenantsTable, treqs, secrets, tevents, notTenantApi>>

\* _handle_create: _create_api_key_secret; create_secret under a name that
\* exists raises ClientError (ResourceExistsException), answered 502
CreateApiKeySecret(h) ==
    /\ treq[h].pc = "secret"
    /\ IF treq[h].tenant_id \in secrets
         THEN /\ TenantReturn(h, ErrorResponse(502, "AWS_CLIENT_ERROR"))
              /\ secrets' = secrets
         ELSE /\ secrets' = secrets \cup {treq[h].tenant_id}
              /\ treq' = [treq EXCEPT ![h].pc = "update"]
    /\ UNCHANGED <<tenantsTable, treqs, memCalls, tevents, notTenantApi>>

\* _handle_create: db.update_item under attribute_not_exists(PK) AND
\* attribute_not_exists(SK); ConditionalCheckFailedException -> 409
CreateUpdateItem(h) ==
    /\ treq[h].pc = "update"
    /\ IF tenantsTable[treq[h].tenant_id]
         THEN /\ TenantReturn(h, ErrorResponse(409, "CONFLICT"))
              /\ tenantsTable' = tenantsTable
         ELSE /\ tenantsTable' = [tenantsTable EXCEPT ![treq[h].tenant_id] = TRUE]
              /\ treq' = [treq EXCEPT ![h].pc = "event"]
    /\ UNCHANGED <<treqs, memCalls, secrets, tevents, notTenantApi>>

\* _handle_create: _put_event(tenant.created) and the 201 answer
CreatePutEvent(h) ==
    /\ treq[h].pc = "event"
    /\ tevents' = [tevents EXCEPT ![treq[h].tenant_id] = @ + 1]
    /\ treq' = [treq EXCEPT ![h].pc = "done", ![h].resp = OkResponse(201),
                              ![h].items = {treq[h].tenant_id}]
    /\ UNCHANGED <<tenantsTable, treqs, memCalls, secrets, notTenantApi>>

TenantApiNext ==
    \/ \E h \in Invocations, route \in {"create", "read", "list"},
          caller \in CallerIdentities, t \in ApiTenantIds, bodyOk \in BOOLEAN :
          LambdaHandler(h, route, caller, t, bodyOk)
    \/ \E h \in Invocations : CreateReadExisting(h)
    \/ \E h \in Invocations : CreateProvisionMemory(h)
    \/ \E h \in Invocations : CreateApiKeySecret(h)
    \/ \E h \in Invocations : CreateUpdateItem(h)
    \/ \E h \in Invocations : CreatePutEvent(h)

(***************************************************************************)
(* Job lifecycle tracker (platform-jobs; data_access.models.JobRecord).    *)
(***************************************************************************)
JobIds == {1, 2}

JobStatuses == {"pending", "running", "completed", "failed"}

\* no item under JOB#<id>
NoJob == [status |-> "absent", result_s3_key |-> FALSE, error_message |-> FALSE,
          webhook_delivered |-> FALSE]

\* JobRecord(status=PENDING): the optional fields at their defaults
PendingJob == [status |-> "pending", result_s3_key |-> FALSE, error_message |-> FALSE,
               webhook_delivered |-> FALSE]

JobTerminal(status) == status \in {"completed", "failed"}

\* a tracker that lets a job start but never finish
JobTransitionAllowedNoFinish(from, to) == from = "pending" /\ to = "running"

JobTransitionAllowedAny(from, to) == from # "absent"

\* Lifecycle: PENDING -> RUNNING -> COMPLETED | FAILED; a job that has not
\* finished may be failed at any point
JobTransitionAllowed(from, to) ==
    \/ from = "pending" /\ to \in {"running", "failed"}
    \/ from = "running" /\ to \in {"completed", "failed"}

\* the record after a transition to `to` is applied
JobAfter(job, to) ==
    CASE to = "completed" -> [job EXCEPT !.status = to, !.result_s3_key = TRUE,
                                         !.webhook_delivered = FALSE]
      [] to = "failed" -> [job EXCEPT !.status = to, !.error_message = TRUE,
                                      !.webhook_delivered = FALSE]
      [] OTHER -> [job EXCEPT !.status = to]

NoAttempt == [op |-> "none", job |-> 0, before |-> NoJob, to |-> "none",
              outcome |-> "none"]

JobInit ==
    /\ jobs = [j \in JobIds |-> NoJob]
    /\ jlast = NoAttempt
    /\ jops = 0

\* create: writes the job in status pending
JobCreate(j) ==
    /\ jops < MaxJobOps
    /\ jobs[j] = NoJob
    /\ jobs' = [jobs EXCEPT ![j] = PendingJob]
    /\ jlast' = [op |-> "create", job |-> j, before |-> jobs[j], to |-> "pending",
                 outcome |-> "applied"]
    /\ jops' = jops + 1
    /\ UNCHANGED notJobs

\* transition to running / completed / failed, and the operator's mark-failed:
\* applied when the lifecycle allows it, rejected otherwise
JobAttempt(op, j, to) ==
    /\ jops < MaxJobOps
    /\ jobs[j] # NoJob
    /\ IF JobTransitionAllowed(jobs[j].status, to)
         THEN /\ jobs' = [jobs EXCEPT ![j] = JobAfter(jobs[j], to)]
              /\ jlast' = [op |-> op, job |-> j, before |-> jobs[j], to |-> to,
                           outcome |-> "applied"]
         ELSE /\ jobs' = jobs
              /\ jlast' = [op |-> op, job |-> j, before |-> jobs[j], to |-> to,
                           outcome |-> "rejected"]
    /\ jops' = jops + 1
    /\ UNCHANGED notJobs

JobTransition(j, to) == JobAttempt("transition", j, to)

MarkFailedByOperator(j) == JobAttempt("mark_failed", j, "failed")

\* the delivery worker: flips the delivered flag once the webhook call succeeded
WebhookDelivered(j) ==
    /\ jops < MaxJobOps
    /\ JobTerminal(jobs[j].status)
    /\ ~jobs[j].webhook_delivered
    /\ jobs' = [jobs EXCEPT ![j].webhook_delivered = TRUE]
    /\ jlast' = [op |-> "delivered", job |-> j, before |-> jobs[j],
                 to |-> jobs[j].status, outcome |-> "applied"]
    /\ jops' = jops + 1
    /\ UNCHANGED notJobs

\* the background work of job j, as the runner reports it to the tracker: it
\* starts (pending -> running) and later finishes (running -> completed or
\* failed); the runner is not one of the counted operations
RunnerAttempt(j, to) ==
    /\ IF JobTransitionAllowed(jobs[j].status, to)
         THEN /\ jobs' = [jobs EXCEPT ![j] = JobAfter(jobs[j], to)]
              /\ jlast' = [op |-> "runner", job |-> j, before |-> jobs[j], to |-> to,
                           outcome |-> "applied"]
         ELSE /\ jobs' = jobs
              /\ jlast' = [op |-> "runner", job |-> j, before |-> jobs[j], to |-> to,
                           outcome |-> "rejected"]
    /\ UNCHANGED <<jops, notJobs>>

RunnerStart(j) ==
    /\ jobs[j].status = "pending"
    /\ RunnerAttempt(j, "running")

RunnerFinish(j, to) ==
    /\ jobs[j].status = "running"
    /\ to \in {"completed", "failed"}
    /\ RunnerAttempt(j, to)

JobNext ==
    \/ \E j \in JobIds : JobCreate(j)
    \/ \E j \in JobIds, to \in JobStatuses : JobTransition(j, to)
    \/ \E j \in JobIds : MarkFailedByOperator(j)
    \/ \E j \in JobIds : WebhookDelivered(j)

(***************************************************************************)
(* Specifications: each runs one component and leaves the others at rest.  *)
(***************************************************************************)
\* the Guard at rest: no operation in flight; the runs of the other components
\* never look at its table, which is left without keys
GuardQuiet ==
    /\ store = <<>>
    /\ bucket = {}
    /\ gpc = "idle"
    /\ gop = IdleOp
    /\ gevents = <<>>
    /\ gresult = NoResult
    /\ cwMetrics = 0
    /\ opsDone = 0
    /\ foreignTouched = {}
    /\ snap = [store |-> store, bucket |-> bucket]

BridgeQuiet ==
    /\ registry = [v \in Versions |-> NotRegistered]
    /\ invTable = {}
    /\ jobTable = {}
    /\ cfgCache = EmptyCache
    /\ cfgExpiry = 0
    /\ bnow = 0
    /\ breqs = 0
    /\ bpc = "idle"
    /\ bctx = NoCtx
    /\ btrace = <<>>
    /\ bresp = NoResp
    /\ bsnap = [inv |-> {}, job |-> {}]

GuardSpecInit == GuardInit /\ LockInit /\ BridgeQuiet /\ JobInit /\ CliInit /\ TenantApiQuiet

SpecGuard == GuardSpecInit /\ [][GuardNext]_vars

QuerySpecInit == QueryInit /\ LockInit /\ BridgeQuiet /\ JobInit /\ CliInit /\ TenantApiQuiet

SpecQuery == QuerySpecInit /\ [][QueryNext]_vars

LockSpecInit == LockInit /\ GuardQuiet /\ BridgeQuiet /\ JobInit /\ CliInit /\ TenantApiQuiet

SpecLock == LockSpecInit /\ [][LockNext]_vars

\* time passes and the table's expiry runs, both fairly
LockLiveInit == LockInit /\ GuardQuiet /\ BridgeQuiet /\ JobInit /\ CliInit /\ TenantApiQuiet

SpecLockLive == LockLiveInit /\ [][LockLiveNext]_vars /\ WF_vars(LiveTick) /\ WF_vars(Expire)

CliSpecInit == CliInit /\ LockInit /\ GuardQuiet /\ BridgeQuiet /\ JobInit /\ TenantApiQuiet

SpecCli == CliSpecInit /\ [][CliNext]_vars

TenantApiSpecInit ==
    TenantApiInit /\ GuardQuiet /\ LockInit /\ BridgeQuiet /\ JobInit /\ CliInit

SpecTenantApi == TenantApiSpecInit /\ [][TenantApiNext]_vars

BridgeSpecInit == BridgeInit /\ GuardQuiet /\ LockInit /\ JobInit /\ CliInit /\ TenantApiQuiet

SpecBridge == BridgeSpecInit /\ [][BridgeNext]_vars

JobSpecInit == JobInit /\ GuardQuiet /\ LockInit /\ BridgeQuiet /\ CliInit /\ TenantApiQuiet

SpecJob == JobSpecInit /\ [][JobNext]_vars

\* the tracker together with the background work, which is scheduled fairly:
\* work that can start does start, work that runs does finish
JobLiveInit == JobInit /\ GuardQuiet /\ LockInit /\ BridgeQuiet /\ CliInit /\ TenantApiQuiet

JobLiveNext ==
    \/ \E j \in JobIds : JobCreate(j)
    \/ \E j \in JobIds, to \in JobStatuses : JobTransition(j, to)
    \/ \E j \in JobIds : MarkFailedByOperator(j)
    \/ \E j \in JobIds : WebhookDelivered(j)
    \/ \E j \in JobIds : RunnerStart(j)
    \/ \E j \in JobIds, to \in {"completed", "failed"} : RunnerFinish(j, to)

JobLiveFairness ==
    \A j \in JobIds :
        /\ WF_vars(RunnerStart(j))
        /\ WF_vars(\E to \in {"completed", "failed"} : RunnerFinish(j, to))

SpecJobLive == JobLiveInit /\ [][JobLiveNext]_vars /\ JobLiveFairness

(***************************************************************************)
(* Properties of the Guard (SpecGuard).                                    *)
(***************************************************************************)
\* tenant identities a partition key can encode
TenantIds == {TenantA, TenantB, TenantAB, <<>>}

GuardDone == gpc = "idle" /\ gop.guard # "none"

Events(kind) == {i \in 1..Len(gevents) : gevents[i].e = kind}

\* C1: for every caller A and every B # A, get_item, put_item, update_item and
\* delete_item of A's Guard on a key whose PK is TENANT#B end by raising
\* TenantAccessViolation(caller_tenant_id = A, tenant_id = B), after exactly
\* one emission of the TenantAccessViolation metric for that attempt.
C1_CrossTenantRaisesAndMetersOnce ==
    \A b \in TenantIds :
        (/\ GuardDone
         /\ gop.guard = "ddb"
         /\ gop.op \in ItemOps
         /\ b # gop.caller
         /\ gop.key.PK = TenantPk(b))
        => /\ gresult.kind = "TenantAccessViolation"
           /\ gresult.caller_tenant_id = gop.caller
           /\ gresult.tenant_id = b
           /\ Cardinality(Events("metric")) = 1
           /\ cwMetrics = Cardinality({i \in Events("metric") : gevents[i].ok})

C1_Witness ==
    /\ GuardDone
    /\ gop.op = "delete_item"
    /\ gop.caller = TenantA
    /\ gop.key.PK = TenantPk(TenantAB)
    /\ gresult.kind = "TenantAccessViolation"
    /\ cwMetrics = 1

\* C7 (as claimed): a get/put/update/delete whose key encodes, in the PK or in
\* the sort key, a tenant other than the caller is rejected with a violation,
\* and no store call is ever issued on such a key.
C7_AnyKeyComponentIsChecked ==
    /\ (/\ GuardDone
        /\ gop.guard = "ddb"
        /\ gop.op \in ItemOps
        /\ KeyEncodesOtherTenant(gop.key, gop.caller))
       => gresult.kind = "TenantAccessViolation"
    /\ foreignTouched = {}

\* C8: when get_item, put_item, update_item or delete_item detects a tenant
\* mismatch, no call to the table has been issued for the operation and the
\* table holds what it held when the operation began.
C8_MismatchBeforeAnyStoreAccess ==
    (/\ gop.guard = "ddb"
     /\ gop.op \in ItemOps
     /\ \/ gpc \in {"log", "metric", "raise"}
        \/ gpc = "idle" /\ gresult.kind = "TenantAccessViolation")
    => /\ Events("store") = {}
       /\ store = snap.store
       /\ bucket = snap.bucket

C8_Witness ==
    /\ GuardDone
    /\ gop.op = "put_item"
    /\ gresult.kind = "TenantAccessViolation"
    /\ store = FullStore
    /\ Events("store") = {}

IsLogOf(ev) ==
    ev = [e |-> "log", caller |-> gop.caller, target |-> gop.target, key |-> gop.key]

IsMetricOf(ev) ==
    \E ok \in BOOLEAN :
        ev = [e |-> "metric", ok |-> ok, caller |-> gop.caller, target |-> gop.target]

\* C9: on a tenant mismatch (DynamoDB or S3 Guard) the security log event
\* naming caller and target comes first, the metric emission attempt second,
\* and the raise of the typed violation, which carries both tenant ids and the
\* offending key, last: the raise never precedes the log or the metric attempt.
C9_LogThenMetricThenRaise ==
    /\ gpc = "metric" => Len(gevents) = 1 /\ IsLogOf(gevents[1])
    /\ gpc = "raise" => Len(gevents) = 2 /\ IsLogOf(gevents[1]) /\ IsMetricOf(gevents[2])
    /\ Events("raise") # {} =>
          /\ Len(gevents) = 3
          /\ IsLogOf(gevents[1])
          /\ IsMetricOf(gevents[2])
          /\ gevents[3].e = "raise"
          /\ gresult = [kind |-> "TenantAccessViolation", tenant_id |-> gop.target,
                        caller_tenant_id |-> gop.caller, attempted_key |-> gop.key,
                        items |-> <<>>]
    /\ gresult.kind = "TenantAccessViolation" => Events("raise") # {}

C9_Witness ==
    /\ GuardDone
    /\ gop.guard = "ddb"
    /\ gresult.kind = "TenantAccessViolation"
    /\ Len(gevents) = 3
    /\ gevents[3].e = "raise"

\* C10: when the metrics client raises, the operation still ends with
\* TenantAccessViolation, the metrics failure never reaches the caller, and
\* neither the table nor the bucket is accessed.
C10_MetricFailureDoesNotSuppress ==
    /\ gresult.kind # "Exception"
    /\ (/\ GuardDone
        /\ \E i \in Events("metric") : ~gevents[i].ok)
       => /\ gresult.kind = "TenantAccessViolation"
          /\ Events("store") = {}
          /\ store = snap.store
          /\ bucket = snap.bucket

C10_Witness ==
    /\ GuardDone
    /\ gop.guard = "s3"
    /\ gresult.kind = "TenantAccessViolation"
    /\ \E i \in Events("metric") : ~gevents[i].ok
    /\ cwMetrics = 0

\* C13: for every caller, get_item, put_item, update_item and delete_item on a
\* key without a tenant segment (PK missing, PK not a string, or PK not
\* starting with TENANT#, such as TOOL# and JOB# keys) bypass the check: the
\* operation never raises TenantAccessViolation, never logs or emits the
\* metric, and is forwarded to the table exactly once.
C13_KeyWithoutTenantSegmentBypasses ==
    (/\ gop.guard = "ddb"
     /\ gop.op \in ItemOps
     /\ ~(gop.key.PK.isStr /\ StartsWith(gop.key.PK.s, TENANT_PK_PREFIX)))
    => /\ gpc \notin {"log", "metric", "raise"}
       /\ gresult.kind # "TenantAccessViolation"
       /\ Events("log") = {}
       /\ Events("metric") = {}
       /\ cwMetrics = 0
       /\ GuardDone => /\ Cardinality(Events("store")) = 1
                       /\ \A i \in Events("store") :
                             gevents[i].call = gop.op /\ gevents[i].key = gop.key

C13_Witness ==
    /\ GuardDone
    /\ gop.guard = "ddb"
    /\ gop.op = "delete_item"
    /\ gop.caller = TenantA
    /\ gop.key = MkKey(JobPk(<<"1">>), METADATA)
    /\ gresult.kind = "ok"
    /\ Cardinality(Events("store")) = 1
    /\ store # snap.store

\* the JobRecord stored under JOB#1: its tenant_id attribute is the tenant
\* log_job wrote it for; the key carries the job id only
JobRecordTenant == TenantB

\* C37 (as claimed): a get, put, update or delete through the Guard on the key
\* of a JobRecord whose tenant_id is not the caller's tenant is rejected with
\* a violation and never reaches the table.
C37_ForeignJobRecordIsRejected ==
    (/\ GuardDone
     /\ gop.guard = "ddb"
     /\ gop.op \in ItemOps
     /\ gop.key = MkKey(JobPk(<<"1">>), METADATA)
     /\ gop.caller # JobRecordTenant)
    => /\ gresult.kind = "TenantAccessViolation"
       /\ Events("store") = {}

\* C11: for a caller A, get_object, put_object, delete_object and
\* generate_presigned_url of A's TenantScopedS3 on a key that does not start
\* with tenants/A/ (another tenant's prefix, or outside tenants/) end by
\* raising TenantAccessViolation for caller A after exactly one emission of
\* the metric, with no call to the bucket and no URL issued.
C11_S3KeyOutsidePrefixRaises ==
    (/\ GuardDone
     /\ gop.guard = "s3"
     /\ gop.op \in S3KeyOps
     /\ ~StartsWith(gop.key, S3_TENANT_DIR \o gop.caller \o <<"/">>))
    => /\ gresult.kind = "TenantAccessViolation"
       /\ gresult.caller_tenant_id = gop.caller
       /\ Cardinality(Events("metric")) = 1
       /\ cwMetrics = Cardinality({i \in Events("metric") : gevents[i].ok})
       /\ Events("store") = {}
       /\ bucket = snap.bucket

C11_Witness ==
    /\ GuardDone
    /\ gop.guard = "s3"
    /\ gop.op = "generate_presigned_url"
    /\ gop.caller = TenantA
    /\ gop.key = ObjF(S3Prefix(TenantAB))
    /\ gresult.kind = "TenantAccessViolation"
    /\ cwMetrics = 1
    /\ Events("store") = {}

\* C12: for a caller A, whatever the bucket holds and whatever prefix argument
\* is passed, list_objects of A's TenantScopedS3 returns only objects whose
\* key starts with tenants/A/.
C12_ListReturnsOnlyCallerObjects ==
    (/\ GuardDone
     /\ gop.guard = "s3"
     /\ gop.op = "list_objects")
    => /\ gresult.kind = "ok"
       /\ \A i \in 1..Len(gresult.items) :
             /\ StartsWith(gresult.items[i], S3_TENANT_DIR \o gop.caller \o <<"/">>)
             /\ gresult.items[i] \in bucket

C12_Witness ==
    /\ GuardDone
    /\ gop.guard = "s3"
    /\ gop.op = "list_objects"
    /\ gop.caller = TenantA
    /\ gop.key = <<".", ".", "/", "b", "/">>
    /\ gresult.items = <<ObjF(S3Prefix(TenantA) \o <<".", ".", "/", "b", "/">>)>>
    /\ ObjF(S3Prefix(TenantB)) \in bucket
    /\ ObjF(S3Prefix(TenantAB)) \in bucket

(***************************************************************************)
(* Properties of the range reads (SpecQuery).                              *)
(***************************************************************************)
\* C2: whatever the table holds and whatever arguments are passed, a finished
\* query of caller A returned only items whose PK is TENANT#A; an argument
\* that names another partition (a PK condition passed as sk_condition, an
\* ExclusiveStartKey of another tenant) yields no item of that partition.
C2_QueryReturnsOnlyCallerPartition ==
    (GuardDone /\ gop.op = "query")
    => /\ \A i \in 1..Len(gresult.items) : gresult.items[i].PK = TenantPk(gop.caller)
       /\ gop.q.sk = "pk_eq_other" => gresult.items = <<>>

C2_Witness ==
    /\ GuardDone
    /\ gop.op = "query"
    /\ gop.caller = TenantA
    /\ Len(gresult.items) = 2
    /\ store[MkKey(TenantPk(TenantB), METADATA)] # NoItem

\* the keys of the items an operation returned
ReturnedKeys == {MkKey(gresult.items[i].PK, gresult.items[i].SK) : i \in 1..Len(gresult.items)}

\* C14: scan performs no isolation check: for any caller it never raises a
\* violation, never logs or emits the metric, and returns the items of every
\* tenant present in the table (all of them when neither a filter nor a limit
\* is passed; with a filter, every item carrying the filtered value).
C14_ScanReturnsEveryTenant ==
    (GuardDone /\ gop.op = "scan")
    => /\ gresult.kind = "ok"
       /\ Events("log") = {} /\ Events("metric") = {} /\ Events("raise") = {}
       /\ cwMetrics = 0
       /\ \A k \in ReturnedKeys : store[k] # NoItem
       /\ (gop.q.filter = 0 /\ gop.q.limit = 0)
             => ReturnedKeys = {k \in StoreKeys : store[k] # NoItem}
       /\ (gop.q.filter # 0 /\ gop.q.limit = 0)
             => ReturnedKeys = {k \in StoreKeys : store[k] = gop.q.filter}

C14_Witness ==
    /\ GuardDone
    /\ gop.op = "scan"
    /\ gop.caller = TenantA
    /\ gop.q.filter = 0 /\ gop.q.limit = 0
    /\ MkKey(TenantPk(TenantB), METADATA) \in ReturnedKeys
    /\ MkKey(TenantPk(TenantAB), METADATA) \in ReturnedKeys
    /\ MkKey(TenantPk(TenantA), METADATA) \in ReturnedKeys

(***************************************************************************)
(* Properties of the failover lock                                         *)
(***************************************************************************)
RECURSIVE AttemptsUpTo(_)
AttemptsUpTo(n) == IF n = 0 THEN 0 ELSE lattempts[n] + AttemptsUpTo(n - 1)

TotalAttempts == AttemptsUpTo(NumProcs)

\* C3: of the acquire_lock attempts made on the lock name from the moment no
\* record exists, and for as long as no record has been removed, exactly one has
\* succeeded and every other one has failed with LockAlreadyHeldError,
\* whatever the order of the attempts; the table then holds one record, and
\* its lockId is the token acquire_lock returned to the one that succeeded.
C3_ExactlyOneAcquireSucceeds ==
    (~lremoved /\ TotalAttempts > 0) =>
        /\ Cardinality(lwon) = 1
        /\ lockRec # NoLock
        /\ lockRec.lockId \in lwon
        /\ llost = TotalAttempts - 1
        /\ \A p \in Procs : lpc[p] = "failed" => lout[p] = "LockAlreadyHeldError"

\* every operator has attempted, one holds the record and the others failed
C3_Witness ==
    /\ ~lremoved
    /\ \A p \in Procs : lattempts[p] > 0
    /\ llost = NumProcs - 1
    /\ \E w \in Procs :
         /\ ltoken[w] = lockRec.lockId
         /\ \A p \in Procs \ {w} : lout[p] = "LockAlreadyHeldError"

InsideCs == {p \in Procs : lpc[p] = "cs"}

\* a contender's acquire on a held lock ends at once in LockAlreadyHeldError:
\* it neither waits nor changes the record
ContenderFailsAtOnce ==
    \A p \in Procs :
        (lockRec # NoLock /\ lattempts'[p] = lattempts[p] + 1) =>
            /\ lpc'[p] = "failed"
            /\ lout'[p] = "LockAlreadyHeldError"
            /\ lockRec' = lockRec

\* C4: as long as no holder has stayed inside its critical section past the
\* expiry of its record and no release without a token has been issued, at
\* most one held_lock scope is inside its critical section; and a contender
\* that finds the lock held fails in the same step, it is never left waiting.
C4_MutualExclusionOfHeldLock ==
    /\ []((~forced /\ ~overstayed) => Cardinality(InsideCs) <= 1)
    /\ [][ContenderFailsAtOnce]_vars

\* one scope is inside its critical section and a contender has just failed
C4_Witness ==
    /\ ~forced
    /\ ~overstayed
    /\ \E p \in Procs, q \in Procs :
         /\ p # q
         /\ lpc[p] = "cs"
         /\ lockRec # NoLock /\ ltoken[p] = lockRec.lockId
         /\ lpc[q] = "failed"
         /\ lout[q] = "LockAlreadyHeldError"

\* the step is a call of release_lock by p with a token that is not the stored one
ReleaseWithWrongToken(p) ==
    /\ lockRec # NoLock
    /\ \/ ReleaseCall(p, "wrong")
       \/ ReleaseCall(p, "own") /\ ltoken[p] # lockRec.lockId

\* C27: release_lock called with a token that does not match the stored
\* lockId raises LockOwnershipError and leaves the record untouched: it is
\* still there with the same lockId, holder and expiry, and the lock is held.
C27_WrongTokenReleaseLeavesRecord ==
    [][\A p \in Procs :
          ReleaseWithWrongToken(p)
          => /\ lrel'[p] = "LockOwnershipError"
             /\ lockRec' = lockRec
             /\ lockRec' # NoLock]_vars

\* an operator released with a wrong token while the other one holds the lock
C27_Witness ==
    \E p \in Procs, q \in Procs :
        /\ p # q
        /\ lpc[p] = "done"
        /\ lout[p] = "acquired"
        /\ lrel[p] = "LockOwnershipError"
        /\ lockRec # NoLock
        /\ lockRec.acquiredBy = q
        /\ ltoken[q] = lockRec.lockId

\* the step is a successful call of acquire_lock by p
AcquireSucceeds(p) ==
    /\ lattempts'[p] = lattempts[p] + 1
    /\ lout'[p] = "acquired"
    /\ ltoken'[p] = lockRec'.lockId
    /\ lockRec'.acquiredBy = p

\* C28: a lock record appears only by a successful acquire_lock and goes only
\* by a release that returned True or by expiry; after a successful acquire,
\* release_lock with the returned token deletes the record and returns True,
\* the table is back to having no record, and from that state acquire_lock
\* on the same name succeeds.
C28_AcquireReleaseRoundTrip ==
    [][/\ (lockRec = NoLock /\ lockRec' # NoLock) => \E p \in Procs : AcquireSucceeds(p)
       /\ (lockRec # NoLock /\ lockRec' # lockRec) =>
             /\ lockRec' = NoLock
             /\ \/ Expire
                \/ \E p \in Procs : lrel'[p] = "released" /\ lpc'[p] = "done"
                                     /\ lpc[p] \in {"holding", "finally"}
       /\ \A p \in Procs :
             (ltoken[p] = lockRec.lockId /\ ReleaseCall(p, "own"))
             => lockRec' = NoLock /\ lrel'[p] = "released"
       /\ \A p \in Procs, t \in 1..MaxTtl :
             (lockRec = NoLock /\ AcquireLock(p, t)) => AcquireSucceeds(p)]_vars

\* after an acquire and its release, the lock was acquired again
C28_Witness ==
    \E p \in Procs, q \in Procs :
        /\ lpc[p] = "done"
        /\ lrel[p] = "released"
        /\ lout[p] = "acquired"
        /\ lpc[q] = "holding"
        /\ lockRec # NoLock
        /\ lockRec.lockId = ltoken[q]
        /\ ~forced

\* C29: a held_lock scope that acquired the lock attempts the release with its
\* token on every exit, after a normal end and after the body raised; the
\* outcome of the body (its exception included) is what leaves the scope, and
\* a release that fails with an ownership mismatch is passed over without
\* replacing it.
C29_ScopeReleasesOnEveryExit ==
    /\ [](\A p \in Procs :
             /\ lpc[p] = "finally" => lout[p] \in {"ok", "BodyError"}
             /\ (lpc[p] = "done" /\ lout[p] \in {"ok", "BodyError"})
                  => lrel[p] \in {"released", "LockOwnershipError"})
    /\ [][\A p \in Procs :
             /\ lpc[p] = "cs" /\ lpc'[p] # "cs" => lpc'[p] = "finally"
             /\ (lpc[p] = "finally" /\ lpc'[p] # "finally")
                  => /\ lpc'[p] = "done"
                     /\ lout'[p] = lout[p]
                     /\ lrel'[p] = IF lockRec.lockId = ltoken[p] THEN "released"
                                   ELSE "LockOwnershipError"]_vars

\* the body raised, the lock had been lost meanwhile, and the body's exception stands
C29_Witness ==
    \E p \in Procs :
        /\ lpc[p] = "done"
        /\ lout[p] = "BodyError"
        /\ lrel[p] = "LockOwnershipError"

\* the step is a release by p, on its own or at the exit of its scope, with the
\* token p was given, while the record in the table is another acquirer's
StaleRelease(p) ==
    /\ lockRec # NoLock
    /\ ltoken[p] # 0
    /\ ltoken[p] # lockRec.lockId
    /\ \/ lpc[p] = "finally" /\ lpc'[p] = "done"
       \/ ReleaseCall(p, "own")

\* C30: once A's lock has expired and B has acquired the same name, a later
\* release by A with A's token, called directly or by the exit of A's
\* held_lock scope, neither deletes nor alters B's record: it stays in place
\* with B's token and B still holds the lock.
C30_StaleReleaseSparesNewHolder ==
    [][\A p \in Procs :
          StaleRelease(p)
          => /\ lockRec' = lockRec
             /\ lockRec'.acquiredBy # p \/ lockRec'.lockId # ltoken[p]
             /\ \A q \in Procs \ {p} : ltoken'[q] = ltoken[q] /\ lpc'[q] = lpc[q]]_vars

\* A's scope ended after its lock expired and B took it; B's record is in place
C30_Witness ==
    \E p \in Procs, q \in Procs :
        /\ p # q
        /\ lpc[p] = "done"
        /\ lout[p] \in {"ok", "BodyError"}
        /\ lrel[p] = "LockOwnershipError"
        /\ lremoved
        /\ lockRec # NoLock
        /\ lockRec.acquiredBy = q
        /\ lockRec.lockId = ltoken[q]
        /\ lpc[q] \in {"cs", "holding"}

\* an acquire made once the record is gone succeeds, whatever the crashed
\* holders still believe
AcquireAfterExpirySucceeds ==
    \A p \in Procs, t \in 1..MaxTtl :
        (CrashingAcquire(p, t) /\ lockRec = NoLock) => AcquireSucceeds(p)

\* C31: when a holder acquires the lock and crashes without releasing, the
\* lock does not stay held: with time passing and the table expiring records
\* fairly, the record is eventually removed, with no step of the crashed
\* holder, and an acquire of the same name made after that succeeds.
C31_CrashedHolderLockExpires ==
    /\ (lockRec # NoLock) ~> (lockRec = NoLock)
    /\ [][AcquireAfterExpirySucceeds]_vars
    /\ [][lockRec # NoLock /\ lockRec' = NoLock => Expire]_vars

\* p still believes it holds the lock it never released; q holds it now
C31_Witness ==
    \E p \in Procs, q \in Procs :
        /\ p # q
        /\ lpc[p] = "holding"
        /\ lrel[p] = "none"
        /\ lremoved
        /\ lockRec # NoLock
        /\ lockRec.acquiredBy = q
        /\ lockRec.lockId = ltoken[q]
        /\ ltoken[p] # lockRec.lockId

\* the step is a call of acquire_lock by p, on its own or by held_lock
AcquireAttempt(p) == lattempts'[p] = lattempts[p] + 1

\* C38: an acquire_lock made while a record exists raises
\* LockAlreadyHeldError and leaves that record as it was: same token, holder,
\* acquiredAt and ttl; the failed caller gets no token.
C38_FailedAcquireLeavesRecord ==
    [][\A p \in Procs :
          (lockRec # NoLock /\ AcquireAttempt(p))
          => /\ lockRec' = lockRec
             /\ lout'[p] = "LockAlreadyHeldError"
             /\ lpc'[p] = "failed"
             /\ ltoken'[p] = 0]_vars

\* q's acquire failed on the record p wrote, which is still there after its
\* ttl has passed
C38_Witness ==
    \E p \in Procs, q \in Procs :
        /\ p # q
        /\ lout[q] = "LockAlreadyHeldError"
        /\ lpc[q] = "failed"
        /\ ltoken[q] = 0
        /\ lockRec.acquiredBy = p
        /\ lockRec.lockId = ltoken[p]
        /\ lockRec.ttl < clock
        /\ ~lremoved

\* what the commands of C32 do, step by step
CliAcquireOnFreeLock ==
    \A p \in Procs, t \in 1..MaxTtl :
        (CmdAcquire(p, t) /\ lockRec = NoLock)
        => /\ cli'[p].exit = 0
           /\ lockRec' # NoLock
           /\ lockRec'.acquiredBy = p
           /\ cli'[p].token = lockRec'.lockId

CliReleaseWithSavedToken ==
    \A p \in Procs :
        CmdRelease(p, 0, FALSE)
        => /\ ((cli[p].token # 0 /\ cli[p].token = lockRec.lockId)
                => (lockRec' = NoLock /\ cli'[p].exit = 0 /\ cli'[p].token = 0
                    /\ cli'[p].released))
           /\ (lockRec' # lockRec => lockRec.lockId = cli[p].token)

CliAcquireOnHeldLock ==
    \A p \in Procs, t \in 1..MaxTtl :
        (CmdAcquire(p, t) /\ lockRec # NoLock)
        => /\ cli'[p].exit = 1
           /\ lockRec' = lockRec
           /\ \A q \in Procs : cli'[q].token = cli[q].token

\* C32: from the command line, a successful acquire saves the token locally,
\* and the release with no arguments that follows uses that token: it removes
\* exactly the record that acquire created, exits 0 and clears the local
\* token; an acquire that fails because the lock is held exits 1, writes no
\* lock record and leaves the locally saved token as it was.
C32_CliReleaseUsesSavedToken ==
    [][CliAcquireOnFreeLock /\ CliReleaseWithSavedToken /\ CliAcquireOnHeldLock]_vars

\* p acquired, q's acquire failed while p held the lock, and p released with
\* no arguments
C32_Witness ==
    \E p \in Procs, q \in Procs :
        /\ p # q
        /\ cli[p].cmd = "release"
        /\ cli[p].exit = 0
        /\ cli[p].released
        /\ cli[p].token = 0
        /\ cli[q].cmd = "acquire"
        /\ cli[q].exit = 1
        /\ cli[q].token = 0
        /\ lockRec = NoLock

(***************************************************************************)
(* Properties of the bridge handler (SpecBridge).                          *)
(***************************************************************************)
\* rank of a tier in basic < standard < premium
TierRank(t) == IF t = "basic" THEN 1 ELSE IF t = "standard" THEN 2 ELSE 3

Forbidden == bresp.kind = "response" /\ bresp.status = 403 /\ bresp.code = "FORBIDDEN"

\* the request in flight got as far as the call of get_config
CalledGetConfig == \E i \in 1..Len(btrace) : btrace[i].e = "get_config"

\* C5: a request whose agent was found in the registry is answered 403 FORBIDDEN
\* exactly when the rank of the caller's tier is below the rank of the agent's
\* minimum tier, for every pair of tiers; otherwise the handler goes on to
\* get_config and the dispatch. No other request is answered 403.
C5_ForbiddenIffTierBelowMinimum ==
    /\ (bpc = "done" /\ bctx.agent.found) =>
          /\ Forbidden <=> TierRank(bctx.tier) < TierRank(bctx.agent.tier_minimum)
          /\ ~Forbidden => CalledGetConfig
    /\ (bpc \in {"config", "invoke"} \/ CalledGetConfig) =>
          /\ bctx.agent.found
          /\ TierRank(bctx.tier) >= TierRank(bctx.agent.tier_minimum)
    /\ (bpc = "done" /\ Forbidden) => bctx.agent.found

\* a standard caller was refused an agent that asks for premium
C5_Witness ==
    /\ bpc = "done"
    /\ Forbidden
    /\ bctx.agent.found
    /\ bctx.tier = "standard"
    /\ bctx.agent.tier_minimum = "premium"

\* every InvocationRecord in the table lies in the partition of the tenant it names
InvocationRecordsInOwnPartition ==
    \A item \in invTable :
        /\ item.tenant_id \in Callers
        /\ item.PK = TenantPk(item.tenant_id)

\* a step that adds InvocationRecords adds them for the caller of the request
\* in flight, whose identity was fixed when the request arrived
InvocationWrittenForCaller ==
    \A item \in invTable' \ invTable :
        /\ bpc = "invoke"
        /\ bctx'.tenant_id = bctx.tenant_id
        /\ item.invocation_id = bctx.id
        /\ item.tenant_id = bctx.tenant_id
        /\ item.PK = TenantPk(bctx.tenant_id)

\* C15: every InvocationRecord the handler writes, in sync, streaming and async
\* mode and after any sequence of requests by any tenants, is stored under
\* PK TENANT#<tenant of the caller of that request> and carries that tenant
\* id; no request writes an InvocationRecord into another tenant's partition.
C15_InvocationRecordInCallerPartition ==
    /\ []InvocationRecordsInOwnPartition
    /\ [][InvocationWrittenForCaller]_vars

\* two tenants were served in turn, and each one's record lies in its partition
C15_Witness ==
    /\ bpc = "done"
    /\ \E x \in invTable : x.tenant_id = TenantA /\ x.PK = TenantPk(TenantA)
                            /\ x.invocation_id = 1
    /\ \E y \in invTable : y.tenant_id = TenantB /\ y.PK = TenantPk(TenantB)
                            /\ y.invocation_id = 2 /\ y.invocation_mode = "async"

\* the request in flight has, so far, called nothing and written nothing
NoSideEffect ==
    /\ btrace = <<>>
    /\ invTable = bsnap.inv
    /\ jobTable = bsnap.job

\* C16: a request answered 403 FORBIDDEN has no side effect: the runtime was
\* not called, no InvocationRecord and no JobRecord was written, and both
\* tables hold what they held when the request arrived.
C16_ForbiddenHasNoSideEffect ==
    (bpc = "done" /\ Forbidden) => NoSideEffect

\* the second request is refused while the first one's record stays in place
C16_Witness ==
    /\ bpc = "done"
    /\ Forbidden
    /\ bctx.id = 2
    /\ bctx.tier = "basic"
    /\ bctx.agent.tier_minimum = "premium"
    /\ invTable # {}
    /\ NoSideEffect

\* the request in flight passed the parse stage and names an agent of which the
\* registry holds no version
AgentAbsent ==
    /\ bctx.agent_name # ""
    /\ \/ bctx.agent_name # ECHO
       \/ \A v \in Versions : ~registry[v].present

NotFound == bresp.kind = "response" /\ bresp.status = 404 /\ bresp.code = "NOT_FOUND"

\* a version string as its numeric components: "1.10.0" is <<1, 10, 0>>
DigitOf(c) == CHOOSE d \in 0..9 : ToString(d) = c

RECURSIVE ParseVersion(_, _, _)
ParseVersion(s, cur, acc) ==
    IF s = <<>> THEN Append(acc, cur)
    ELSE IF Head(s) = "." THEN ParseVersion(Tail(s), 0, Append(acc, cur))
    ELSE ParseVersion(Tail(s), cur * 10 + DigitOf(Head(s)), acc)

\* semantic-version order: component by component, as numbers
SemVerLess(a, b) ==
    LET x == ParseVersion(a, 0, <<>>)
        y == ParseVersion(b, 0, <<>>)
    IN \E i \in 1..3 : x[i] < y[i] /\ \A k \in 1..(i - 1) : x[k] = y[k]

\* C33: the lookup of an agent without a version returns the registered
\* record with the greatest semantic version (1.10.0 is later than 1.9.0):
\* a request that got past the lookup carries no version that is semantically
\* less than another registered one.
C33_LatestIsGreatestSemanticVersion ==
    (bpc \in {"tier", "config"} /\ bctx.agent.found)
    => \A v \in Versions :
          registry[v].present => ~SemVerLess(bctx.agent.version, v)

\* the get_config call of the step: whether it asked the parameter store, and
\* whether the value it returned has a runtime url (the handler goes on to the
\* invocation exactly then)
AskedParameterStore == btrace'[Len(btrace')] = [e |-> "get_config", fetched |-> TRUE]
ServedWithoutAsking == btrace'[Len(btrace')] = [e |-> "get_config", fetched |-> FALSE]
ReturnedUrlOf(cache) == (bpc' = "invoke") <=> (cache.mock_runtime_url # "None")

\* a successful fetch lies less than CONFIG_CACHE_TTL seconds back
CacheFresh == cfgCache.set /\ bnow - (cfgExpiry - CONFIG_CACHE_TTL) < CONFIG_CACHE_TTL

\* C39: a get_config call made less than 60 seconds after the last successful
\* fetch returns the cached value without asking the parameter store; a call
\* made later (or before any successful fetch) asks it; a successful fetch
\* is returned, cached and starts a new 60 seconds; a failed fetch returns
\* the last value fetched successfully, or the defaults when there is none,
\* and leaves cache and expiry as they were, so that the next call asks again.
C39_ConfigCacheLifetime ==
    [][\A ssm \in SsmOutcomes :
          HandlerGetConfig(ssm)
          => /\ CacheFresh
                  => /\ ServedWithoutAsking
                     /\ ReturnedUrlOf(cfgCache)
                     /\ UNCHANGED <<cfgCache, cfgExpiry>>
             /\ (~CacheFresh /\ ssm # "fail")
                  => /\ AskedParameterStore
                     /\ cfgCache'.set
                     /\ (cfgCache'.mock_runtime_url = "url") <=> (ssm = "url")
                     /\ ReturnedUrlOf(cfgCache')
                     /\ cfgExpiry' = bnow + CONFIG_CACHE_TTL
             /\ (~CacheFresh /\ ssm = "fail")
                  => /\ AskedParameterStore
                     /\ ReturnedUrlOf(cfgCache)
                     /\ UNCHANGED <<cfgCache, cfgExpiry>>]_vars

\* the second request came 60 seconds after the fetch of the first, its
\* refetch failed, and it went on with the url fetched by the first
C39_Witness ==
    /\ breqs = 2
    /\ bpc = "invoke"
    /\ btrace = <<[e |-> "get_config", fetched |-> TRUE]>>
    /\ cfgCache.set
    /\ cfgCache.mock_runtime_url = "url"
    /\ cfgExpiry = bnow

\* C17: when the agent a request names is absent from the registry, the lookup
\* yields a not-found result and raises nothing, the request never reaches the
\* tier check, and it ends with 404 NOT_FOUND without a call of the runtime
\* and without an InvocationRecord or JobRecord written.
C17_AbsentAgentEndsNotFound ==
    AgentAbsent
    => /\ bpc \in {"lookup", "done"}
       /\ ~bctx.agent.found
       /\ bresp.kind # "raised"
       /\ NoSideEffect
       /\ bpc = "done" => NotFound

\* the second request names an unregistered agent after a first one was served
C17_Witness ==
    /\ bpc = "done"
    /\ bctx.id = 2
    /\ bctx.agent_name = "ghost"
    /\ \E v \in Versions : registry[v].present
    /\ invTable # {}
    /\ NotFound
    /\ NoSideEffect

\* the call of the runtime made for the request in flight failed, or was
\* answered with an error status
PostFailed == \E i \in 1..Len(btrace) : btrace[i].e = "runtime_post" /\ btrace[i].outcome # "ok"

\* C18: for a sync or streaming agent, when the call of the runtime fails or is
\* answered with an error status before any output, the request ends with
\* 502 BAD_GATEWAY; nothing was relayed and no record was written.
C18_UnreachableRuntimeIsBadGateway ==
    (/\ bpc = "done"
     /\ bctx.agent.found
     /\ bctx.agent.invocation_mode \in {"sync", "streaming"}
     /\ PostFailed)
    => /\ bresp = ErrorResponse(502, "BAD_GATEWAY")
       /\ \A i \in 1..Len(btrace) : btrace[i].e \in {"get_config", "runtime_post"}
       /\ invTable = bsnap.inv
       /\ jobTable = bsnap.job

C18_Witness ==
    /\ bpc = "done"
    /\ bctx.agent.found
    /\ bctx.agent.invocation_mode = "streaming"
    /\ bctx.stream
    /\ \E i \in 1..Len(btrace) : btrace[i] = Post("http_error")
    /\ bresp = ErrorResponse(502, "BAD_GATEWAY")

Accepted == bresp = OkResponse(202)

AsyncDone == bpc = "done" /\ bctx.agent.found /\ bctx.agent.invocation_mode = "async"

\* C19 (as claimed): for an async agent, a call of the runtime that fails
\* outright (a connection error, not a read timeout) does not fail the accept:
\* the request is still answered 202 for its job.
C19_AsyncUnreachableStillAccepted ==
    (/\ AsyncDone
     /\ \E i \in 1..Len(btrace) : btrace[i] = Post("connection_error"))
    => Accepted

\* C35 (as claimed): whenever a request is answered 202 with job id J, the
\* jobs table holds a JobRecord for J, in status pending and with the
\* caller's tenant_id, also when the job write failed.
C35_AcceptedJobIsStored ==
    Accepted
    => \E job \in jobTable :
          /\ job.job_id = bctx.id
          /\ job.status = "pending"
          /\ job.tenant_id = bctx.tenant_id

\* C20 (as claimed): an async request answered 202 has, in this order, created
\* the JobRecord in status pending, called the runtime without waiting for
\* its completion (a read timeout is tolerated), and written an
\* InvocationRecord with status success linked to the job id; when the 202 is
\* returned the job is stored with status pending.
C20_AsyncAcceptOrder ==
    (AsyncDone /\ Accepted)
    => /\ Len(btrace) = 4
       /\ btrace[1].e = "get_config"
       /\ btrace[2].e = "job_write"
       /\ btrace[2].item.job_id = bctx.id
       /\ btrace[2].item.status = "pending"
       /\ btrace[3].e = "runtime_post"
       /\ btrace[4].e = "inv_write"
       /\ btrace[4].item.status = "success"
       /\ btrace[4].item.job_id = bctx.id
       /\ \E job \in jobTable : job.job_id = bctx.id /\ job.status = "pending"

\* the InvocationRecords the request in flight has written
RecordsWritten == {i \in 1..Len(btrace) : btrace[i].e = "inv_write"}

\* the status an InvocationRecord is to carry for an outcome of the runtime call
StatusFor(outcome) ==
    IF outcome = "ok" THEN "success" ELSE IF outcome = "timeout" THEN "timeout" ELSE "error"

\* C22 (as claimed): every sync request that called the runtime has written
\* exactly one InvocationRecord, whose status is success, error or timeout
\* according to the outcome of that call, also when the call failed or timed
\* out.
C22_SyncWritesOneRecordPerOutcome ==
    \A i \in 1..Len(btrace) :
        (/\ bpc = "done"
         /\ bctx.agent.found
         /\ bctx.agent.invocation_mode = "sync"
         /\ btrace[i].e = "runtime_post")
        => /\ Cardinality(RecordsWritten) = 1
           /\ \A r \in RecordsWritten :
                 btrace[r].item.status = StatusFor(btrace[i].outcome)

\* the lines written to the caller's response stream so far, in order
RECURSIVE WrittenLines(_)
WrittenLines(trace) ==
    IF trace = <<>> THEN <<>>
    ELSE (IF Head(trace).e = "stream_write" THEN <<Head(trace).line>> ELSE <<>>)
         \o WrittenLines(Tail(trace))

IsChunk(line) == line # ""

\* the non-empty lines the runtime produces, end-of-stream marker included
Chunks == SelectSeq(RuntimeLines, IsChunk)

IsPrefix(a, b) == Len(a) <= Len(b) /\ a = SubSeq(b, 1, Len(a))

StreamingDone == bpc = "done" /\ bctx.agent.found /\ bctx.agent.invocation_mode = "streaming"

\* C36 (as claimed): in streaming mode a request that ends with the 502
\* BAD_GATEWAY response has written no chunk to the caller's response stream.
C36_NoBadGatewayAfterOutput ==
    (StreamingDone /\ bresp = BAD_GATEWAY) => WrittenLines(btrace) = <<>>

\* C23: within one streaming invocation the lines written to the caller's
\* response stream are the non-empty lines of the runtime, each once and in
\* the order produced: always a prefix of them, and all of them, the
\* end-of-stream marker included, when the stream ran to its end.
C23_ChunksRelayedOnceInOrder ==
    /\ IsPrefix(WrittenLines(btrace), Chunks)
    /\ (StreamingDone /\ bresp = ReturnsNone) => WrittenLines(btrace) = Chunks
    /\ (bpc = "done" /\ bctx.agent.invocation_mode # "streaming") => WrittenLines(btrace) = <<>>

C23_Witness ==
    /\ StreamingDone
    /\ bresp = ReturnsNone
    /\ WrittenLines(btrace) = <<"d1", "DONE">>

\* the runtime accepted the call and its stream then ended in an error
StreamEndedInError ==
    /\ StreamingDone
    /\ \E i \in 1..Len(btrace) : btrace[i] = Post("ok")
    /\ bresp = ErrorResponse(502, "BAD_GATEWAY")

\* C24 (as claimed): in streaming mode the InvocationRecord is written only
\* after the stream has ended, never before the last line is relayed, and
\* when the stream ends in an error an InvocationRecord is still written, with
\* a status that reflects the error.
C24_StreamRecordAfterEndAlsoOnError ==
    /\ StreamingDone =>
          \A r \in RecordsWritten :
              \A i \in 1..Len(btrace) : btrace[i].e = "stream_write" => i < r
    /\ StreamEndedInError =>
          /\ Cardinality(RecordsWritten) = 1
          /\ \A r \in RecordsWritten : btrace[r].item.status = "error"

\* C25 (as claimed): every request the handler was given ends with a response
\* it returned; a failure of no known kind (a tier claim outside basic,
\* standard, premium; a JSON body that is not an object) becomes an
\* internal-error response and never leaves the handler as an exception.
C25_EveryRequestEndsWithResponse ==
    bpc = "done" => bresp.kind = "response"

(***************************************************************************)
(* Properties of the job lifecycle tracker (SpecJob).                      *)
(***************************************************************************)
\* position of a status along pending -> running -> completed | failed
JobRank(status) ==
    CASE status = "absent" -> 0 [] status = "pending" -> 1 [] status = "running" -> 2
      [] OTHER -> 3

\* the last attempt asked for a move backward, or for a move out of a finished job
LastAttemptBackward ==
    /\ jlast.op \in {"transition", "mark_failed"}
    /\ \/ JobRank(jlast.to) < JobRank(jlast.before.status)
       \/ jlast.before.status \in {"completed", "failed"}

\* no step moves a job's status backward or out of completed / failed
JobStatusForwardOnly ==
    \A j \in JobIds :
        /\ JobRank(jobs'[j].status) >= JobRank(jobs[j].status)
        /\ jobs[j].status \in {"completed", "failed"} => jobs'[j].status = jobs[j].status

\* C6: from every reachable job state, a transition that asks for a status
\* behind the job's current one (completed -> running, failed -> pending), or
\* for any status once the job is completed or failed, is rejected and the
\* JobRecord stays as it was; no step ever moves a status backward.
C6_JobStatusMonotonic ==
    /\ [](LastAttemptBackward =>
             /\ jlast.outcome = "rejected"
             /\ jobs[jlast.job] = jlast.before)
    /\ [][JobStatusForwardOnly]_vars

\* a completed job was asked to go back to running, and refused
C6_Witness ==
    /\ jlast.op = "transition"
    /\ jlast.before.status = "completed"
    /\ jlast.to = "running"
    /\ jlast.outcome = "rejected"
    /\ jobs[jlast.job].status = "completed"

(***************************************************************************)
(* Properties of the tenant API (SpecTenantApi).                           *)
(***************************************************************************)
TenantDone(h) == treq[h].pc = "done"

\* C34: a caller without the admin role reads a tenant record only when the
\* tenant id asked for is its own: its read of another tenant is answered
\* 403 FORBIDDEN with no access to the table for that tenant, a 200 read is
\* of its own tenant, and its list holds at most its own tenant and touches
\* no other tenant's record.
C34_NonAdminReadsOwnTenantOnly ==
    \A h \in Invocations :
        (TenantDone(h) /\ ~treq[h].caller.admin)
        => /\ (treq[h].route = "read" /\ treq[h].tenant_id # treq[h].caller.tenant_id)
                => /\ treq[h].resp = ErrorResponse(403, "FORBIDDEN")
                   /\ treq[h].reads = {}
                   /\ treq[h].items = {}
           /\ (treq[h].route = "read" /\ treq[h].resp.status = 200)
                => /\ treq[h].tenant_id = treq[h].caller.tenant_id
                   /\ treq[h].items = {treq[h].caller.tenant_id}
           /\ treq[h].route = "list"
                => /\ treq[h].items \subseteq {treq[h].caller.tenant_id}
                   /\ treq[h].reads \subseteq {treq[h].caller.tenant_id}

\* tenant B is registered; A's read of B was refused, A's list shows A only
C34_Witness ==
    \E h \in Invocations, g \in Invocations :
        /\ tenantsTable[TenantA] /\ tenantsTable[TenantB]
        /\ TenantDone(h)
        /\ treq[h].route = "read"
        /\ treq[h].caller = [admin |-> FALSE, tenant_id |-> TenantA]
        /\ treq[h].tenant_id = TenantB
        /\ treq[h].resp = ErrorResponse(403, "FORBIDDEN")
        /\ TenantDone(g)
        /\ treq[g].route = "list"
        /\ treq[g].caller = [admin |-> FALSE, tenant_id |-> TenantA]
        /\ treq[g].items = {TenantA}

\* a create request of an admin with a complete body
ValidCreate(h) == treq[h].route = "create" /\ treq[h].pc # "idle" /\ treq[h].reads # {}

\* C40 (as claimed): under concurrent create requests for one tenant id, every
\* request is answered 201 or 409 and at most one 201, and the per-tenant
\* side effects are performed once: one record, one tenant.created event,
\* one memory provisioning, one API-key secret.
C40_ConcurrentCreateOnce ==
    /\ \A h \in Invocations :
          (TenantDone(h) /\ ValidCreate(h)) => treq[h].resp.status \in {201, 409}
    /\ \A t \in ApiTenantIds :
          /\ memCalls[t] <= 1
          /\ tevents[t] <= 1
          /\ Cardinality({h \in Invocations :
                            /\ TenantDone(h) /\ treq[h].route = "create"
                            /\ treq[h].tenant_id = t /\ treq[h].resp.status = 201}) <= 1


\* the step that creates a job leaves it pending: the accept does none of the work
CreateLeavesPending ==
    \A j \in JobIds : (jobs[j] = NoJob /\ jobs'[j] # NoJob) => jobs'[j] = PendingJob

====
